---- MODULE Spec2Model ----
(***************************************************************************)
(* A model of poewikibot: the chat-bot front end (bot.py), the resolver    *)
(* (api.py) and the field catalog (models.py).                             *)
(*                                                                         *)
(* Strings are sequences of one-character strings, so that escaping,       *)
(* substitution, truncation and containment are computed character by      *)
(* character as the Python code computes them.                             *)
(***************************************************************************)
EXTENDS Integers, Sequences, FiniteSets, TLC

(***************************************************************************)
(* Python values                                                           *)
(***************************************************************************)

\* Python's None for an Optional[str]: a sequence no string equals.
None == <<"<None>">>

\* Python truthiness of an Optional[str]: neither None nor "".
Truthy(s) == s # None /\ s # <<>>

\* Python's `a or b` on Optional[str].
OrElse(a, b) == IF Truthy(a) THEN a ELSE b

(***************************************************************************)
(* str methods                                                             *)
(***************************************************************************)

\* s[i:] for a 1-based i.
Drop(s, i) == SubSeq(s, i, Len(s))

\* s[:n]
Prefix(s, n) == IF Len(s) <= n THEN s ELSE SubSeq(s, 1, n)

\* s.startswith(p)
StartsWith(s, p) == Len(p) <= Len(s) /\ SubSeq(s, 1, Len(p)) = p

\* p in s
Contains(s, p) == \E i \in 1..(Len(s) - Len(p) + 1) : SubSeq(s, i, i + Len(p) - 1) = p

\* The index at which the first occurrence of p in s starts, or 0.
Find(s, p) ==
    LET at(i) == s[i] = p[1] /\ SubSeq(s, i, i + Len(p) - 1) = p
        last == Len(s) - Len(p) + 1
    IN IF \E i \in 1..last : at(i)
       THEN CHOOSE i \in 1..last : at(i) /\ \A j \in 1..(i - 1) : ~at(j)
       ELSE 0

\* s.replace(old, new) for a non-empty old: the non-overlapping occurrences
\* of old, left to right.
RECURSIVE Replace(_, _, _)
Replace(s, old, new) ==
    LET i == Find(s, old) IN
    IF i = 0 THEN s
    ELSE SubSeq(s, 1, i - 1) \o new \o Replace(Drop(s, i + Len(old)), old, new)

\* sep.join(parts)
RECURSIVE Join(_, _)
Join(sep, parts) ==
    IF parts = <<>> THEN <<>>
    ELSE IF Len(parts) = 1 THEN parts[1]
    ELSE parts[1] \o sep \o Join(sep, Tail(parts))

\* The index of the first c in s, or 0.
FirstIndex(s, c) ==
    IF \E i \in 1..Len(s) : s[i] = c
    THEN CHOOSE i \in 1..Len(s) : s[i] = c /\ \A j \in 1..(i - 1) : s[j] # c
    ELSE 0

\* A string of n characters c.
Repeat(c, n) == [i \in 1..n |-> c]

LowerLetters == <<"a","b","c","d","e","f","g","h","i","j","k","l","m","n","o","p","q","r","s","t","u","v","w","x","y","z">>
UpperLetters == <<"A","B","C","D","E","F","G","H","I","J","K","L","M","N","O","P","Q","R","S","T","U","V","W","X","Y","Z">>
Digits == <<"0","1","2","3","4","5","6","7","8","9">>

LowerSet == {LowerLetters[i] : i \in 1..Len(LowerLetters)}
UpperSet == {UpperLetters[i] : i \in 1..Len(UpperLetters)}
DigitSet == {Digits[i] : i \in 1..Len(Digits)}

\* The lower-case form of each upper-case letter, and the reverse.
ToLower == [c \in UpperSet |-> LowerLetters[CHOOSE i \in 1..Len(UpperLetters) : UpperLetters[i] = c]]
ToUpper == [c \in LowerSet |-> UpperLetters[CHOOSE i \in 1..Len(LowerLetters) : LowerLetters[i] = c]]

IsLower(c) == c \in LowerSet
IsUpper(c) == c \in UpperSet
IsDigit(c) == c \in DigitSet
IsCased(c) == IsLower(c) \/ IsUpper(c)

LowerChar(c) == IF IsUpper(c) THEN <<ToLower[c]>> ELSE <<c>>
UpperChar(c) == IF IsLower(c) THEN <<ToUpper[c]>> ELSE <<c>>

\* s.lower()
Lower(s) == [i \in 1..Len(s) |-> IF s[i] \in UpperSet THEN ToLower[s[i]] ELSE s[i]]

\* s.title(): a cased character is upper-cased after an uncased one (or at the
\* start) and lower-cased after a cased one.
RECURSIVE TitleFrom(_, _)
TitleFrom(s, prevCased) ==
    IF s = <<>> THEN <<>>
    ELSE (IF prevCased THEN LowerChar(s[1]) ELSE UpperChar(s[1]))
         \o TitleFrom(Tail(s), IsCased(s[1]))
Title(s) == TitleFrom(s, FALSE)

(***************************************************************************)
(* html.escape and urllib.parse.quote                                      *)
(***************************************************************************)

\* html.escape(s, quote=False), one character: quotes are left alone.
EscapeChar_NoQuote(c) ==
    IF c = "&" THEN <<"&","a","m","p",";">>
    ELSE IF c = "<" THEN <<"&","l","t",";">>
    ELSE IF c = ">" THEN <<"&","g","t",";">>
    ELSE <<c>>

\* html.escape(s, quote=True), one character.
EscapeChar(c) ==
    IF c = "&" THEN <<"&","a","m","p",";">>
    ELSE IF c = "<" THEN <<"&","l","t",";">>
    ELSE IF c = ">" THEN <<"&","g","t",";">>
    ELSE IF c = "\"" THEN <<"&","q","u","o","t",";">>
    ELSE IF c = "'" THEN <<"&","#","x","2","7",";">>
    ELSE <<c>>

\* html.escape(s): every character replaced by its escaped form (halving
\* keeps the evaluation shallow on long strings).
RECURSIVE html_escape(_)
html_escape(s) ==
    IF s = <<>> THEN <<>>
    ELSE IF Len(s) = 1 THEN EscapeChar(s[1])
    ELSE LET h == Len(s) \div 2
         IN html_escape(SubSeq(s, 1, h)) \o html_escape(SubSeq(s, h + 1, Len(s)))

\* quote(s) with the default safe="/": letters, digits and "_.-~/" are kept,
\* every other character of the model's alphabet is percent-encoded.
QuoteChar(c) ==
    IF IsCased(c) \/ IsDigit(c) \/ c \in {"_", ".", "-", "~", "/"} THEN <<c>>
    ELSE IF c = " " THEN <<"%","2","0">>
    ELSE IF c = "&" THEN <<"%","2","6">>
    ELSE IF c = "'" THEN <<"%","2","7">>
    ELSE IF c = "<" THEN <<"%","3","C">>
    ELSE IF c = ">" THEN <<"%","3","E">>
    ELSE IF c = "\"" THEN <<"%","2","2">>
    ELSE IF c = ":" THEN <<"%","3","A">>
    ELSE IF c = "%" THEN <<"%","2","5">>
    ELSE IF c = "+" THEN <<"%","2","B">>
    ELSE IF c = "(" THEN <<"%","2","8">>
    ELSE IF c = ")" THEN <<"%","2","9">>
    ELSE IF c = "|" THEN <<"%","7","C">>
    ELSE IF c = "#" THEN <<"%","2","3">>
    ELSE <<"%","3","F">>

RECURSIVE quote(_)
quote(s) ==
    IF s = <<>> THEN <<>>
    ELSE IF Len(s) = 1 THEN QuoteChar(s[1])
    ELSE LET h == Len(s) \div 2
         IN quote(SubSeq(s, 1, h)) \o quote(SubSeq(s, h + 1, Len(s)))


(***************************************************************************)
(* The Item record (api.py) and its stats dictionary                       *)
(***************************************************************************)

\* A dict[str, str] in insertion order: a sequence of <<key, value>> pairs
\* with distinct keys.
HasKey(d, k) == \E i \in 1..Len(d) : d[i][1] = k
GetKey(d, k) == d[CHOOSE i \in 1..Len(d) : d[i][1] = k][2]
PopKey(d, k) == SelectSeq(d, LAMBDA p : p[1] # k)
\* d[k] = v: an existing key keeps its place, a new key goes last.
SetKey(d, k, v) ==
    IF HasKey(d, k) THEN [i \in 1..Len(d) |-> IF d[i][1] = k THEN <<k, v>> ELSE d[i]]
    ELSE Append(d, <<k, v>>)

\* Item(name, rarity, item_class, image_url=...): the other fields default
\* to None and stats to an empty dict.
Item(name, rarity, item_class, image_url) ==
    [name |-> name, rarity |-> rarity, item_class |-> item_class,
     required_level |-> None, flavour_text |-> None, description |-> None,
     implicit_mods |-> None, explicit_mods |-> None,
     image_url |-> image_url, stats |-> <<>>]

\* The value of an Optional[Item] that is None.
NoItem == [name |-> None, rarity |-> None, item_class |-> None,
           required_level |-> None, flavour_text |-> None, description |-> None,
           implicit_mods |-> None, explicit_mods |-> None,
           image_url |-> None, stats |-> <<>>]

(***************************************************************************)
(* bot.py: format_content                                                  *)
(***************************************************************************)

WIKI_BASE == <<"h","t","t","p","s",":","/","/","w","w","w",".","p","o","e","w","i","k","i",".","n","e","t","/","w","i","k","i","/">>
LOADING_MODS == <<"<","b",">","<","i",">","L","o","a","d","i","n","g"," ","m","o","d","s",".",".",".","<","/","i",">","<","/","b",">">>
LOADING_DETAILS == <<"<","b",">","<","i",">","L","o","a","d","i","n","g"," ","f","u","l","l"," ","d","e","t","a","i","l","s",".",".",".","<","/","i",">","<","/","b",">">>
RANGE_TEXT == <<"_","r","a","n","g","e","_","t","e","x","t">>
NL == <<"\n">>
NLNL == <<"\n","\n">>
ELLIPSIS == <<".",".",".">>

\* wiki_url = f"https://www.poewiki.net/wiki/{quote(name.replace(' ', '_'))}"
WikiUrl(name) == WIKI_BASE \o quote(Replace(name, <<" ">>, <<"_">>))

\* f'<a href="{html.escape(url)}">&#8205;</a>'
ImageLink(url) == <<"<","a"," ","h","r","e","f","=","\"">> \o html_escape(url) \o <<"\"",">","&","#","8","2","0","5",";","<","/","a",">">>

\* float(val) accepts the value: digits with at most one decimal point.
IsDecimal(val) ==
    /\ \E i \in 1..Len(val) : IsDigit(val[i])
    /\ \A i \in 1..Len(val) : IsDigit(val[i]) \/ val[i] = "."
    /\ Cardinality({i \in 1..Len(val) : val[i] = "."}) <= 1

RECURSIVE StripLeadingZeros(_)
StripLeadingZeros(s) ==
    IF s = <<>> THEN <<"0">>
    ELSE IF Len(s) > 1 /\ s[1] = "0" THEN StripLeadingZeros(Tail(s))
    ELSE s

\* f"{float(val):.2f}" inside try/except: a value float() rejects is kept.
\* The model's values carry at most two fraction digits, so no rounding occurs.
FloatFmt2(val) ==
    IF ~IsDecimal(val) THEN val
    ELSE LET dot == FirstIndex(val, ".")
             ip == IF dot = 0 THEN val ELSE SubSeq(val, 1, dot - 1)
             fp == IF dot = 0 THEN <<>> ELSE Drop(val, dot + 1)
         IN StripLeadingZeros(ip) \o <<".">> \o SubSeq(fp \o <<"0","0">>, 1, 2)

K_pd_range_text == <<"p","h","y","s","i","c","a","l","_","d","a","m","a","g","e","_","r","a","n","g","e","_","t","e","x","t">>
K_pd_min == <<"p","h","y","s","i","c","a","l","_","d","a","m","a","g","e","_","m","i","n">>
K_pd_max == <<"p","h","y","s","i","c","a","l","_","d","a","m","a","g","e","_","m","a","x">>
K_pd == <<"p","h","y","s","i","c","a","l","_","d","a","m","a","g","e">>
K_crit == <<"c","r","i","t","i","c","a","l","_","s","t","r","i","k","e","_","c","h","a","n","c","e">>

\* The "Formatting physical damage" block: the lines it appends and the
\* display_stats it leaves.
PhysicalDamage(d) ==
    IF HasKey(d, K_pd_range_text)
    THEN [lines |-> << <<"P","h","y","s","i","c","a","l"," ","D","a","m","a","g","e",":"," ">> \o GetKey(d, K_pd_range_text) >>,
          rest |-> PopKey(PopKey(PopKey(d, K_pd_range_text), K_pd_min), K_pd_max)]
    ELSE IF HasKey(d, K_pd_min) /\ HasKey(d, K_pd_max)
    THEN [lines |-> << <<"P","h","y","s","i","c","a","l"," ","D","a","m","a","g","e",":"," ">> \o GetKey(d, K_pd_min) \o <<"-">> \o GetKey(d, K_pd_max) >>,
          rest |-> PopKey(PopKey(d, K_pd_min), K_pd_max)]
    ELSE IF HasKey(d, K_pd)
    THEN [lines |-> << <<"P","h","y","s","i","c","a","l"," ","D","a","m","a","g","e",":"," ">> \o GetKey(d, K_pd) >>,
          rest |-> PopKey(d, K_pd)]
    ELSE [lines |-> <<>>, rest |-> d]

\* format_map, in its insertion order; "{}" splits each format into a prefix
\* and a suffix.
format_map == <<
    [key |-> <<"c","r","i","t","i","c","a","l","_","s","t","r","i","k","e","_","c","h","a","n","c","e","_","r","a","n","g","e","_","t","e","x","t">>, prefix |-> <<"C","r","i","t","i","c","a","l"," ","S","t","r","i","k","e"," ","C","h","a","n","c","e",":"," ">>, suffix |-> <<>>],
    [key |-> <<"c","r","i","t","i","c","a","l","_","s","t","r","i","k","e","_","c","h","a","n","c","e">>, prefix |-> <<"C","r","i","t","i","c","a","l"," ","S","t","r","i","k","e"," ","C","h","a","n","c","e",":"," ">>, suffix |-> <<"%">>],
    [key |-> <<"a","t","t","a","c","k","_","s","p","e","e","d","_","r","a","n","g","e","_","t","e","x","t">>, prefix |-> <<"A","t","t","a","c","k","s"," ","p","e","r"," ","S","e","c","o","n","d",":"," ">>, suffix |-> <<>>],
    [key |-> <<"a","t","t","a","c","k","_","s","p","e","e","d">>, prefix |-> <<"A","t","t","a","c","k","s"," ","p","e","r"," ","S","e","c","o","n","d",":"," ">>, suffix |-> <<>>],
    [key |-> <<"w","e","a","p","o","n","_","r","a","n","g","e","_","r","a","n","g","e","_","t","e","x","t">>, prefix |-> <<"W","e","a","p","o","n"," ","R","a","n","g","e",":"," ">>, suffix |-> <<>>],
    [key |-> <<"w","e","a","p","o","n","_","r","a","n","g","e">>, prefix |-> <<"W","e","a","p","o","n"," ","R","a","n","g","e",":"," ">>, suffix |-> <<>>],
    [key |-> <<"a","r","m","o","u","r","_","r","a","n","g","e","_","t","e","x","t">>, prefix |-> <<"A","r","m","o","u","r",":"," ">>, suffix |-> <<>>],
    [key |-> <<"a","r","m","o","u","r">>, prefix |-> <<"A","r","m","o","u","r",":"," ">>, suffix |-> <<>>],
    [key |-> <<"e","v","a","s","i","o","n","_","r","a","n","g","e","_","t","e","x","t">>, prefix |-> <<"E","v","a","s","i","o","n"," ","R","a","t","i","n","g",":"," ">>, suffix |-> <<>>],
    [key |-> <<"e","v","a","s","i","o","n">>, prefix |-> <<"E","v","a","s","i","o","n"," ","R","a","t","i","n","g",":"," ">>, suffix |-> <<>>],
    [key |-> <<"e","n","e","r","g","y","_","s","h","i","e","l","d","_","r","a","n","g","e","_","t","e","x","t">>, prefix |-> <<"E","n","e","r","g","y"," ","S","h","i","e","l","d",":"," ">>, suffix |-> <<>>],
    [key |-> <<"e","n","e","r","g","y","_","s","h","i","e","l","d">>, prefix |-> <<"E","n","e","r","g","y"," ","S","h","i","e","l","d",":"," ">>, suffix |-> <<>>],
    [key |-> <<"w","a","r","d","_","r","a","n","g","e","_","t","e","x","t">>, prefix |-> <<"W","a","r","d",":"," ">>, suffix |-> <<>>],
    [key |-> <<"w","a","r","d">>, prefix |-> <<"W","a","r","d",":"," ">>, suffix |-> <<>>],
    [key |-> <<"m","a","p","_","t","i","e","r">>, prefix |-> <<"M","a","p"," ","T","i","e","r",":"," ">>, suffix |-> <<>>],
    [key |-> <<"g","e","m","_","t","a","g","s">>, prefix |-> <<"T","a","g","s",":"," ">>, suffix |-> <<>>],
    [key |-> <<"p","r","i","m","a","r","y","_","a","t","t","r","i","b","u","t","e">>, prefix |-> <<"P","r","i","m","a","r","y"," ","A","t","t","r","i","b","u","t","e",":"," ">>, suffix |-> <<>> ] >>

\* One pass of "for key, fmt in format_map.items()", from entry i on.
RECURSIVE FormatMapLoop(_, _, _)
FormatMapLoop(i, d, lines) ==
    IF i > Len(format_map) THEN [lines |-> lines, rest |-> d]
    ELSE LET e == format_map[i] IN
         IF ~HasKey(d, e.key) THEN FormatMapLoop(i + 1, d, lines)
         ELSE LET val == GetKey(d, e.key)
                  d1 == PopKey(d, e.key)
                  base_key == Replace(e.key, RANGE_TEXT, <<>>)
                  d2 == IF Contains(e.key, RANGE_TEXT)
                        THEN PopKey(PopKey(PopKey(d1, base_key),
                                           base_key \o <<"_","m","i","n">>), base_key \o <<"_","m","a","x">>)
                        ELSE d1
                  shown == IF e.key = K_crit THEN FloatFmt2(val) ELSE val
              IN FormatMapLoop(i + 1, d2,
                     Append(lines, e.prefix \o html_escape(shown) \o e.suffix))

\* "Add any remaining non-null stats": whether the pair is rendered.
GenericShown(key, val) ==
    /\ val # <<>> /\ val # None
    /\ val # <<"0">>
    /\ ~StartsWith(key, <<"_">>)
    /\ ~Contains(key, <<"h","t","m","l">>)

GenericLine(key, val) ==
    html_escape(Title(Replace(Replace(key, RANGE_TEXT, <<>>), <<"_">>, <<" ">>)))
        \o <<":"," ">> \o html_escape(val)

RECURSIVE GenericLoop(_, _)
GenericLoop(d, lines) ==
    IF d = <<>> THEN lines
    ELSE GenericLoop(Tail(d),
             IF GenericShown(d[1][1], d[1][2])
             THEN Append(lines, GenericLine(d[1][1], d[1][2]))
             ELSE lines)

\* The stat lines of format_content, in order.
StatLines(item_obj) ==
    LET pd == PhysicalDamage(item_obj.stats)
        fm == FormatMapLoop(1, pd.rest, pd.lines)
        lv == IF Truthy(item_obj.required_level)
              THEN Append(fm.lines, <<"R","e","q","u","i","r","e","s"," ","L","e","v","e","l"," ">> \o html_escape(item_obj.required_level))
              ELSE fm.lines
    IN GenericLoop(fm.rest, lv)

\* html.escape(mods).replace('&lt;br&gt;', '\n').replace('&lt;br/&gt;', '\n')
ModBlock(mods) ==
    Replace(Replace(html_escape(mods), <<"&","l","t",";","b","r","&","g","t",";">>, NL), <<"&","l","t",";","b","r","/","&","g","t",";">>, NL)

\* format_content(item_obj, loading_mods), with the wiki_url of its closure.
format_content(item_obj, loading_mods, wiki_url) ==
    LET head == << <<"<","b",">","<","a"," ","h","r","e","f","=","\"">> \o html_escape(wiki_url) \o <<"\"",">">>
                     \o html_escape(item_obj.name) \o <<"<","/","a",">","<","/","b",">">>,
                   <<"<","i",">">> \o html_escape(item_obj.item_class) \o <<"<","/","i",">">> >>
        stats == StatLines(item_obj)
        p_stats == IF stats # <<>> THEN << Join(NL, stats) >> ELSE <<>>
        p_impl == IF Truthy(item_obj.implicit_mods)
                  THEN << ModBlock(item_obj.implicit_mods) >> ELSE <<>>
        p_expl == IF Truthy(item_obj.explicit_mods)
                  THEN << ModBlock(item_obj.explicit_mods) >> ELSE <<>>
        p_load == IF loading_mods THEN << LOADING_MODS >> ELSE <<>>
        p_desc == IF Truthy(item_obj.description)
                  THEN << html_escape(item_obj.description) >> ELSE <<>>
        p_flav == IF Truthy(item_obj.flavour_text)
                  THEN << <<"<","i",">">> \o html_escape(item_obj.flavour_text) \o <<"<","/","i",">">> >> ELSE <<>>
        image_part == IF Truthy(item_obj.image_url) THEN ImageLink(item_obj.image_url) ELSE <<>>
    IN image_part \o Join(NLNL, head \o p_stats \o p_impl \o p_expl \o p_load \o p_desc \o p_flav)

\* The character budget of an edit (Telegram's ceiling is MessageCeiling).
ContentBudget == 4000
MessageCeiling == 4096

\* A truncation that cuts nothing.
Truncate_NoCut(content) == content

\* if len(content) > 4000: content = content[:4000] + "..."
Truncate(content) ==
    IF Len(content) > ContentBudget
    THEN Prefix(content, ContentBudget) \o ELLIPSIS
    ELSE content

\* re.sub('<[^<]+?>', '', content): each "<", one or more characters other
\* than "<" up to the first ">" among them, and that ">" are removed.  A "<"
\* is never inside an earlier match, so the scan restarts at every "<".
RECURSIVE StripTags(_)
StripTags(s) ==
    LET i == FirstIndex(s, "<") IN
    IF i = 0 THEN s
    ELSE LET rest == Drop(s, i + 1)
             nextLt == FirstIndex(rest, "<")
             reach == IF nextLt = 0 THEN rest ELSE SubSeq(rest, 1, nextLt - 1)
             \* the closing ">" is at least two characters after the "<"
             gt == FirstIndex(Drop(reach, 2), ">")
         IN IF gt = 0
            THEN SubSeq(s, 1, i) \o StripTags(rest)
            ELSE SubSeq(s, 1, i - 1) \o StripTags(Drop(rest, gt + 2))

\* plain_content of the Phase 2 fallback, before the [:4000] slice.
PlainContent(content) ==
    LET stripped == StripTags(content)
    IN IF Contains(content, <<"&","#","8","2","0","5",";">>)
       THEN Replace(stripped, <<"&","#","8","2","0","5",";">>, <<>>) ELSE stripped

(***************************************************************************)
(* The remote wiki and the delivery channel, as the bot sees them          *)
(***************************************************************************)

\* The length of the long texts the wiki can hold (past the edit budget).
LongLen == 4100

Starforge ==
    [Item(<<"S","t","a","r","f","o","r","g","e">>, <<"U","n","i","q","u","e">>, <<"T","w","o","-","H","a","n","d","e","d"," ","S","w","o","r","d">>, <<"h","t","t","p","s",":","/","/","e","x","a","m","p","l","e",".","c","o","m","/","i","m","a","g","e",".","p","n","g">>)
     EXCEPT !.required_level = <<"6","7">>,
            !.flavour_text = <<"T","h","e"," ","e","n","d"," ","i","s"," ","w","r","i","t","t","e","n"," ","i","n","t","o"," ","t","h","e"," ","b","e","g","i","n","n","i","n","g",".">>,
            !.stats = << <<K_pd_range_text, <<"(","4","2","5","-","4","7","5",")","-","(","6","3","8","-","7","1","3",")">>>>,
                         <<K_crit, <<"5">>>>,
                         <<<<"a","t","t","a","c","k","_","s","p","e","e","d">>, <<"1",".","2","5">>>> >>]

AtzirisPromise ==
    [Item(<<"A","t","z","i","r","i","'","s"," ","P","r","o","m","i","s","e">>, <<"U","n","i","q","u","e">>, <<"F","l","a","s","k">>, <<"h","t","t","p","s",":","/","/","e","x","a","m","p","l","e",".","c","o","m","/","A","t","z","i","r","i","'","s","_","P","r","o","m","i","s","e",".","p","n","g">>)
     EXCEPT !.required_level = <<"6","8">>,
            !.flavour_text = <<"D","e","a","t","h"," ","i","s"," ","b","u","t"," ","a"," ","'","p","r","o","m","i","s","e","'"," ","k","e","p","t",".">>,
            !.stats = << <<<<"d","u","m","m","y","_","s","t","a","t">>, <<"v","a","l","u","e"," ","'","w","i","t","h","'"," ","q","u","o","t","e","s">>>> >>]

BlackAndWhite ==
    [Item(<<"B","l","a","c","k"," ","&"," ","W","h","i","t","e">>, <<"N","o","r","m","a","l">>, <<"C","u","r","r","e","n","c","y">>, None)
     EXCEPT !.description = <<"S","t","a","c","k","s"," ","&"," ","<","b",">","s","p","l","i","t","s","<","/","b",">">>]

\* A gem whose supplementary stat text alone exceeds the budget.
VaalGem ==
    [Item(<<"V","a","a","l"," ","A","r","c">>, <<"N","o","r","m","a","l">>, <<"S","k","i","l","l"," ","G","e","m">>, None)
     EXCEPT !.required_level = <<"1","2">>,
            !.stats = << <<<<"g","e","m","_","t","a","g","s">>, <<"S","p","e","l","l",","," ","C","h","a","i","n","i","n","g">>>>,
                         <<<<"s","t","a","t","_","t","e","x","t">>, Repeat("s", LongLen)>> >>]

\* An item whose Phase 1 content is ContentBudget + k characters long.
Tabula == Item(<<"T","a","b","u","l","a"," ","R","a","s","a">>, <<"U","n","i","q","u","e">>, <<"B","o","d","y"," ","A","r","m","o","u","r">>, None)
Filled(k) ==
    LET base == Len(format_content(Tabula, TRUE, WikiUrl(Tabula.name))) + Len(NLNL)
    IN [Tabula EXCEPT !.description = Repeat("d", ContentBudget + k - base)]

\* What get_item_details(name, include_mods=False) can return when it finds
\* the item: the record without mod text.
WikiItems == {Starforge, AtzirisPromise, BlackAndWhite, VaalGem,
              Filled(0), Filled(1)}

\* The <<implicit, explicit>> mod text populate_item_details can resolve.
ModTexts == { <<None, None>>,
              <<<<"I","m","p","l","i","c","i","t"," ","m","o","d">>, <<"E","x","p","l","i","c","i","t"," ","m","o","d"," ","1","<","b","r",">","E","x","p","l","i","c","i","t"," ","m","o","d"," ","2">>>>,
              <<None, <<"1","0","%"," ","m","o","r","e"," ","d","a","m","a","g","e"," ","&"," ","s","p","e","e","d">>>>,
              <<<<"+","(","2","0","-","3","0",")"," ","t","o"," ","'","a","l","l","'"," ","A","t","t","r","i","b","u","t","e","s">>, None>> }

\* The item names the handlers are called with.
RequestNames == {i.name : i \in WikiItems} \cup {<<"s","t","a","r","f","o","r","g","e">>, <<"N","o"," ","S","u","c","h"," ","I","t","e","m">>}

\* get_item_details matches the name ignoring case, exactly or as a substring.
NameMatches(rec, name) == Contains(Lower(rec.name), Lower(name))

\* str(e) of the exceptions edit_message_text raises.
NOT_MODIFIED == <<"M","e","s","s","a","g","e"," ","i","s"," ","n","o","t"," ","m","o","d","i","f","i","e","d",":"," ","s","p","e","c","i","f","i","e","d"," ","n","e","w"," ","m","e","s","s","a","g","e"," ","c","o","n","t","e","n","t"," ","a","n","d"," ","r","e","p","l","y"," ","m","a","r","k","u","p"," ","a","r","e"," ","e","x","a","c","t","l","y"," ","t","h","e"," ","s","a","m","e">>
CANT_PARSE == <<"C","a","n","'","t"," ","p","a","r","s","e"," ","e","n","t","i","t","i","e","s",":"," ","u","n","s","u","p","p","o","r","t","e","d"," ","s","t","a","r","t"," ","t","a","g">>
BAD_REQUEST == <<"B","a","d"," ","R","e","q","u","e","s","t",":"," ","m","e","s","s","a","g","e"," ","t","o"," ","e","d","i","t"," ","n","o","t"," ","f","o","u","n","d">>
TIMED_OUT == <<"T","i","m","e","d"," ","o","u","t">>
Delivered == <<>>

\* The outcome of an edit whose exception the code inspects, and of one
\* whose exception it only logs.
EditOutcomes == {Delivered, NOT_MODIFIED, CANT_PARSE, BAD_REQUEST, TIMED_OUT}
FinalEditOutcomes == {Delivered, TIMED_OUT}

\* The message references a resolution is started with.
InlineRef == [inline_message_id |-> <<"m","s","g","1","2","3">>, chat_id |-> None, message_id |-> None]
ChatRef == [inline_message_id |-> None, chat_id |-> <<"4","5","6">>, message_id |-> <<"7","8","9">>]

\* The zero-width joiner the hidden image link leaves in a message's text.
ZWJ == "ZWJ"

\* The id of this bot, and of another one.
BotId == "this_bot"
OtherBotId == "other_bot"

\* The fields of an update the handlers read.  A field the update does not
\* have is None; effective_chat and effective_message are given by their ids.
NoUpdate ==
    [kind |-> "none", result_id |-> None, data |-> None, text |-> None, via_bot |-> "",
     inline_message_id |-> None, chat_id |-> None, message_id |-> None]

ChosenInlineResult(result_id, inline_message_id) ==
    [NoUpdate EXCEPT !.kind = "chosen_inline_result", !.result_id = result_id,
                     !.inline_message_id = inline_message_id]

Message(text, via_bot) ==
    [NoUpdate EXCEPT !.kind = "message", !.text = text, !.via_bot = via_bot,
                     !.chat_id = ChatRef.chat_id, !.message_id = ChatRef.message_id]

CallbackQuery(data, ref) ==
    [NoUpdate EXCEPT !.kind = "callback_query", !.data = data,
                     !.inline_message_id = ref.inline_message_id,
                     !.chat_id = ref.chat_id, !.message_id = ref.message_id]

\* The text of a message that was sent from an inline result and is still
\* loading, and the same message once resolved.
LoadingText(name) ==
    <<ZWJ>> \o name \o NL \o <<"I","t","e","m">> \o NLNL \o <<"L","o","a","d","i","n","g"," ","f","u","l","l"," ","d","e","t","a","i","l","s",".",".",".">>
Messages ==
    {Message(LoadingText(name), BotId) : name \in RequestNames}
    \cup {Message(LoadingText(Starforge.name), OtherBotId),
          Message(LoadingText(Starforge.name), ""),
          Message(Starforge.name \o NL \o <<"I","t","e","m">>, BotId),
          Message(None, BotId)}

\* The button of an inline result carries "resolve|<name>"; other data reaches
\* the handler as well.  The button is on an inline message or on a message
\* in a chat.
CallbackQueries ==
    {CallbackQuery(data, ref) :
        data \in {<<"r","e","s","o","l","v","e","|","S","t","a","r","f","o","r","g","e">>, <<"r","e","s","o","l","v","e","|","N","o"," ","S","u","c","h"," ","I","t","e","m">>, <<"n","o","o","p">>,
                  <<"S","t","a","r","f","o","r","g","e","|","r","e","s","o","l","v","e","|">>, <<>>, None},
        ref \in {[InlineRef EXCEPT !.inline_message_id = <<"i","n","l","i","n","e","1","2","3">>], ChatRef}}

(***************************************************************************)
(* bot.py: the handlers, one action per awaited step                       *)
(***************************************************************************)

VARIABLES
    pc,         \* where resolve_item_details stands
    item_name,  \* its item_name argument
    msg,        \* its inline_message_id, chat_id and message_id arguments
    item,       \* the Phase 1 item
    full_item,  \* the Phase 2 item
    content,    \* the content of the current phase, truncated
    log,        \* the get_item_details and edit_message_text calls, in order
    articles,   \* what inline_query answered
    update,     \* the update the running handler was called with
    answers     \* how many times query.answer() was called

botVars == <<pc, item_name, msg, item, full_item, content, log, articles, update, answers>>

Lookup(name, include_mods) ==
    [kind |-> "lookup", name |-> name, include_mods |-> include_mods,
     site |-> "", text |-> <<>>, parse_mode |-> "", outcome |-> <<>>, ref |-> msg]

\* An edit addressed by the inline message id alone.
Edit_InlineOnly(site, text, parse_mode, outcome) ==
    [kind |-> "edit", name |-> item_name, include_mods |-> FALSE,
     site |-> site, text |-> text, parse_mode |-> parse_mode, outcome |-> outcome,
     ref |-> [msg EXCEPT !.chat_id = None, !.message_id = None]]

\* edit_message_text(inline_message_id=..., chat_id=..., message_id=..., ...)
Edit(site, text, parse_mode, outcome) ==
    [kind |-> "edit", name |-> item_name, include_mods |-> FALSE,
     site |-> site, text |-> text, parse_mode |-> parse_mode, outcome |-> outcome,
     ref |-> msg]

Lookups == SelectSeq(log, LAMBDA e : e.kind = "lookup")
Edits == SelectSeq(log, LAMBDA e : e.kind = "edit")

BotInit ==
    /\ pc = "idle"
    /\ item_name = None
    /\ msg = [inline_message_id |-> None, chat_id |-> None, message_id |-> None]
    /\ item = NoItem
    /\ full_item = NoItem
    /\ content = <<>>
    /\ log = <<>>
    /\ articles = <<>>
    /\ update = NoUpdate
    /\ answers = 0

\* The message body inline_query builds for one result.
InlineContent(it) ==
    (IF Truthy(it.image_url) THEN ImageLink(it.image_url) ELSE <<>>)
    \o <<"<","b",">","<","a"," ","h","r","e","f","=","\"">> \o html_escape(WikiUrl(it.name)) \o <<"\"",">">>
    \o html_escape(it.name) \o <<"<","/","a",">","<","/","b",">">> \o NL
    \o <<"<","i",">">> \o html_escape(it.item_class) \o <<"<","/","i",">">> \o NLNL
    \o LOADING_DETAILS

\* "Deduplicate results by name and class" (and rarity), keeping the first.
RECURSIVE Dedup(_, _)
Dedup(results, seen) ==
    IF results = <<>> THEN <<>>
    ELSE LET k == <<results[1].name, results[1].item_class, results[1].rarity>>
         IN IF k \in seen THEN Dedup(Tail(results), seen)
            ELSE <<results[1]>> \o Dedup(Tail(results), seen \cup {k})

UUID8 == <<"1","a","2","b","3","c","4","d">>

Article(it) ==
    [id |-> it.name \o <<"|">> \o UUID8,
     title |-> it.name,
     content |-> InlineContent(it),
     parse_mode |-> "HTML",
     callback_data |-> <<"r","e","s","o","l","v","e","|">> \o it.name]

\* What query_items(query, limit=10) returns to inline_query: unenriched
\* records.
Basic(it) == Item(it.name, it.rarity, it.item_class, it.image_url)
SearchResults == { <<Basic(Starforge)>>,
                   <<Basic(AtzirisPromise), Basic(AtzirisPromise)>>,
                   <<Basic(BlackAndWhite), Basic(Starforge)>> }

\* inline_query: a failed search answers nothing.
InlineQuery ==
    /\ pc = "idle"
    /\ \E failed \in BOOLEAN, results \in SearchResults :
         LET unique_results == Dedup(results, {})
         IN articles' = IF failed THEN <<>>
                        ELSE [i \in 1..Len(unique_results) |-> Article(unique_results[i])]
    /\ pc' = "answered"
    /\ UNCHANGED <<item_name, msg, item, full_item, content, log, update, answers>>

\* result_id.split('|')[0] if '|' in result_id else result_id
NameOfResultId(result_id) ==
    LET i == FirstIndex(result_id, "|")
    IN IF i = 0 THEN result_id ELSE SubSeq(result_id, 1, i - 1)

\* The start of resolve_item_details(item_name, context, ...).
Enter(name, ref) ==
    /\ item_name' = name
    /\ msg' = ref
    /\ pc' = "phase1_lookup"
    /\ UNCHANGED <<item, full_item, content, log, articles>>

\* A handler that returns without calling resolve_item_details.
Ignore ==
    /\ pc' = "done"
    /\ UNCHANGED <<item_name, msg, item, full_item, content, log, articles>>

\* on_chosen_inline_result: without an inline_message_id it returns.
OnChosenInlineResult ==
    /\ pc = "answered"
    /\ \E i \in 1..Len(articles), inline_message_id \in {None, InlineRef.inline_message_id} :
         LET chosen_result == ChosenInlineResult(articles[i].id, inline_message_id)
         IN /\ update' = chosen_result
            /\ IF Truthy(chosen_result.inline_message_id)
               THEN Enter(NameOfResultId(chosen_result.result_id),
                          [inline_message_id |-> chosen_result.inline_message_id,
                           chat_id |-> None, message_id |-> None])
               ELSE Ignore
    /\ UNCHANGED answers

\* lines[0].strip(' \u200d')
RECURSIVE LStrip(_)
LStrip(s) == IF s # <<>> /\ s[1] \in {" ", ZWJ} THEN LStrip(Tail(s)) ELSE s
RECURSIVE RStrip(_)
RStrip(s) ==
    IF s # <<>> /\ s[Len(s)] \in {" ", ZWJ} THEN RStrip(SubSeq(s, 1, Len(s) - 1)) ELSE s
FirstLine(text) ==
    LET i == FirstIndex(text, "\n")
    IN RStrip(LStrip(IF i = 0 THEN text ELSE SubSeq(text, 1, i - 1)))

\* on_message: only a message sent via this bot that still shows
\* "Loading full details..." is resolved, by the name on its first line.
OnMessage ==
    /\ pc = "idle"
    /\ \E m \in Messages :
         /\ update' = m
         /\ IF m.via_bot # BotId THEN Ignore
            ELSE IF Truthy(m.text) /\ Contains(m.text, <<"L","o","a","d","i","n","g"," ","f","u","l","l"," ","d","e","t","a","i","l","s",".",".",".">>)
                 THEN Enter(FirstLine(m.text),
                            [inline_message_id |-> None,
                             chat_id |-> m.chat_id, message_id |-> m.message_id])
                 ELSE Ignore
    /\ UNCHANGED answers

\* on_callback_query up to "await query.answer()": the answer is sent first,
\* and a failure to send it ends the handler.
OnCallbackQuery ==
    /\ pc = "idle"
    /\ \E query \in CallbackQueries, answered \in BOOLEAN :
         /\ update' = query
         /\ pc' = IF answered THEN "callback" ELSE "handler_raised"
    /\ answers' = answers + 1
    /\ UNCHANGED <<item_name, msg, item, full_item, content, log, articles>>

\* query.data.split("|")[1]
NameOfCallbackData(d) ==
    LET rest == Drop(d, FirstIndex(d, "|") + 1)
        j == FirstIndex(rest, "|")
    IN IF j = 0 THEN rest ELSE SubSeq(rest, 1, j - 1)

\* The rest of on_callback_query, whatever query.data is.
CallbackDispatch_Unchecked ==
    /\ pc = "callback"
    /\ Enter(NameOfCallbackData(update.data),
             [inline_message_id |-> update.inline_message_id,
              chat_id |-> update.chat_id, message_id |-> update.message_id])
    /\ UNCHANGED <<update, answers>>

\* The rest of on_callback_query: data that is empty or does not start with
\* "resolve|" is ignored.
CallbackDispatch ==
    /\ pc = "callback"
    /\ IF ~Truthy(update.data) \/ ~StartsWith(update.data, <<"r","e","s","o","l","v","e","|">>)
       THEN Ignore
       ELSE Enter(NameOfCallbackData(update.data),
                  [inline_message_id |-> update.inline_message_id,
                   chat_id |-> update.chat_id, message_id |-> update.message_id])
    /\ UNCHANGED <<update, answers>>

\* item = await get_item_details(item_name, include_mods=False), and the
\* content of Phase 1.
Phase1LookupWith(loading_mods) ==
    /\ pc = "phase1_lookup"
    /\ \/ \* it raises: the outer except
          /\ pc' = "error_edit"
          /\ UNCHANGED <<item, content>>
       \/ \* not found
          /\ pc' = "not_found_edit"
          /\ UNCHANGED <<item, content>>
       \/ \E rec \in WikiItems :
            /\ NameMatches(rec, item_name)
            /\ item' = rec
            /\ content' = Truncate(format_content(rec, loading_mods, WikiUrl(rec.name)))
            /\ pc' = "phase1_edit"
    /\ log' = Append(log, Lookup(item_name, FALSE))
    /\ UNCHANGED <<item_name, msg, full_item, articles, update, answers>>

\* A Phase 1 that renders without the trailer.
Phase1Lookup_NoTrailer == Phase1LookupWith(FALSE)

Phase1Lookup == Phase1LookupWith(TRUE)

\* The edit of the "Could not find details" branch.
NotFoundEdit ==
    /\ pc = "not_found_edit"
    /\ \E out \in FinalEditOutcomes :
         log' = Append(log, Edit("not_found",
                    <<"<","b",">">> \o html_escape(item_name) \o <<"<","/","b",">">> \o NL
                        \o <<"<","i",">","D","e","t","a","i","l","s"," ","c","o","u","l","d"," ","n","o","t"," ","b","e"," ","r","e","s","o","l","v","e","d",".","<","/","i",">">>,
                    "HTML", out))
    /\ pc' = "done"
    /\ UNCHANGED <<item_name, msg, item, full_item, content, articles, update, answers>>

\* A Phase 1 edit whose except clause retries after every rejection.
Phase1Edit_RetryUnchanged ==
    /\ pc = "phase1_edit"
    /\ \E out \in EditOutcomes :
         /\ log' = Append(log, Edit("phase1", content, "HTML", out))
         /\ pc' = IF out = Delivered THEN "phase2_lookup" ELSE "phase1_plain"
    /\ UNCHANGED <<item_name, msg, item, full_item, content, articles, update, answers>>

\* The Phase 1 edit and its except clause.
Phase1Edit ==
    /\ pc = "phase1_edit"
    /\ \E out \in EditOutcomes :
         /\ log' = Append(log, Edit("phase1", content, "HTML", out))
         /\ pc' = IF out = Delivered \/ Contains(out, <<"M","e","s","s","a","g","e"," ","i","s"," ","n","o","t"," ","m","o","d","i","f","i","e","d">>)
                  THEN "phase2_lookup" ELSE "phase1_plain"
    /\ UNCHANGED <<item_name, msg, item, full_item, content, articles, update, answers>>

\* "Retrying Phase 1 with plain text"
Phase1Plain ==
    /\ pc = "phase1_plain"
    /\ \E out \in FinalEditOutcomes :
         log' = Append(log, Edit("phase1_plain",
                    item_name \o NL \o item.item_class \o NLNL
                        \o <<"(","F","o","r","m","a","t","t","i","n","g"," ","e","r","r","o","r",","," ","r","e","t","r","y","i","n","g",".",".",".",")">> \o NLNL \o <<"L","o","a","d","i","n","g"," ","m","o","d","s",".",".",".">>,
                    "None", out))
    /\ pc' = "phase2_lookup"
    /\ UNCHANGED <<item_name, msg, item, full_item, content, articles, update, answers>>

\* full_item = await get_item_details(item_name, include_mods=True), and the
\* content of Phase 2.
Phase2LookupWith(include_mods) ==
    /\ pc = "phase2_lookup"
    /\ \/ /\ pc' = "error_edit"
          /\ UNCHANGED <<full_item, content>>
       \/ \* None: only a warning is logged
          /\ pc' = "done"
          /\ UNCHANGED <<full_item, content>>
       \/ \E mods \in ModTexts :
            LET rec == IF include_mods
                       THEN [item EXCEPT !.implicit_mods = mods[1], !.explicit_mods = mods[2]]
                       ELSE item
            IN /\ full_item' = rec
               /\ content' = Truncate(format_content(rec, FALSE, WikiUrl(item.name)))
               /\ pc' = "phase2_edit"
    /\ log' = Append(log, Lookup(item_name, include_mods))
    /\ UNCHANGED <<item_name, msg, item, articles, update, answers>>

\* A Phase 2 that asks for no mods.
Phase2Lookup_NoMods == Phase2LookupWith(FALSE)

Phase2Lookup == Phase2LookupWith(TRUE)

\* Whether the Phase 2 except clause retries with plain text.
IsMarkupRejection(out) ==
    \/ Contains(Lower(out), <<"c","a","n","'","t"," ","p","a","r","s","e">>)
    \/ Contains(Lower(out), <<"e","n","t","i","t","i","e","s">>)
    \/ Contains(Lower(out), <<"b","a","d"," ","r","e","q","u","e","s","t">>)

\* The Phase 2 edit and its except clause.
Phase2Edit ==
    /\ pc = "phase2_edit"
    /\ \E out \in EditOutcomes :
         /\ log' = Append(log, Edit("phase2", content, "HTML", out))
         /\ pc' = IF out = Delivered \/ Contains(out, <<"M","e","s","s","a","g","e"," ","i","s"," ","n","o","t"," ","m","o","d","i","f","i","e","d">>) THEN "done"
                  ELSE IF IsMarkupRejection(out) THEN "phase2_plain"
                  ELSE "done"
    /\ UNCHANGED <<item_name, msg, item, full_item, content, articles, update, answers>>

\* "Retrying Phase 2 with plain text": text=plain_content[:4000]
Phase2Plain ==
    /\ pc = "phase2_plain"
    /\ \E out \in FinalEditOutcomes :
         log' = Append(log, Edit("phase2_plain",
                    Prefix(PlainContent(content), ContentBudget), "None", out))
    /\ pc' = "done"
    /\ UNCHANGED <<item_name, msg, item, full_item, content, articles, update, answers>>

\* An outer except whose edit is not guarded: its failure leaves the function.
ErrorEdit_Unguarded ==
    /\ pc = "error_edit"
    /\ \E out \in FinalEditOutcomes :
         /\ log' = Append(log, Edit("error",
                      <<"<","b",">">> \o html_escape(item_name) \o <<"<","/","b",">">> \o NL
                          \o <<"(","E","r","r","o","r"," ","l","o","a","d","i","n","g"," ","f","u","l","l"," ","d","e","t","a","i","l","s",")">>,
                      "HTML", out))
         /\ pc' = IF out = Delivered THEN "done" ELSE "raised"
    /\ UNCHANGED <<item_name, msg, item, full_item, content, articles, update, answers>>

\* The outer except: "Final fallback to clear Loading if everything crashed".
ErrorEdit ==
    /\ pc = "error_edit"
    /\ \E out \in FinalEditOutcomes :
         log' = Append(log, Edit("error",
                    <<"<","b",">">> \o html_escape(item_name) \o <<"<","/","b",">">> \o NL
                        \o <<"(","E","r","r","o","r"," ","l","o","a","d","i","n","g"," ","f","u","l","l"," ","d","e","t","a","i","l","s",")">>,
                    "HTML", out))
    /\ pc' = "done"   \* "except: pass": a failure of this edit is dropped
    /\ UNCHANGED <<item_name, msg, item, full_item, content, articles, update, answers>>

BotNext ==
    \/ InlineQuery
    \/ OnChosenInlineResult
    \/ OnMessage
    \/ OnCallbackQuery
    \/ CallbackDispatch
    \/ Phase1Lookup
    \/ NotFoundEdit
    \/ Phase1Edit
    \/ Phase1Plain
    \/ Phase2Lookup
    \/ Phase2Edit
    \/ Phase2Plain
    \/ ErrorEdit

(***************************************************************************)
(* api.py: get_mods_fallback                                               *)
(***************************************************************************)

\* A response of the Cargo endpoint: the rows of its "cargoquery" list (none
\* when the body has no such member), a request that raised (transport
\* failure, body that is not JSON), or a malformed envelope: JSON that is no
\* object, or whose rows lack their "title".  ok says that the request and
\* the reading of the body raise nothing: the reading of a malformed envelope
\* raises (TypeError, AttributeError, KeyError) inside the same try block as
\* the request.
Rows(rows) == [ok |-> TRUE, error |-> FALSE, malformed |-> FALSE, rows |-> rows]
Raised == [ok |-> FALSE, error |-> FALSE, malformed |-> FALSE, rows |-> <<>>]
Malformed == [ok |-> FALSE, error |-> FALSE, malformed |-> TRUE, rows |-> <<>>]

\* mod_info_map after the loop over the item_mods rows: rows without an id
\* are skipped.
RECURSIVE ModInfoMap(_, _)
ModInfoMap(raw_mods, map) ==
    IF raw_mods = <<>> THEN map
    ELSE LET mod_title == Head(raw_mods) IN
         ModInfoMap(Tail(raw_mods),
            IF mod_title.id # ""
            THEN SetKey(map, mod_title.id,
                     [is_implicit |-> mod_title.is_implicit = "1",
                      is_explicit |-> mod_title.is_explicit = "1"])
            ELSE map)

Hidden == <<"(","H","i","d","d","e","n",")">>

\* A mods row kept whether hidden or not.
KeepsStatText_Hidden(m_title) ==
    m_title.id # "" /\ Truthy(m_title.stat_text)

\* A mods row is kept when it has an id and a text that is not hidden.
KeepsStatText(m_title) ==
    m_title.id # "" /\ Truthy(m_title.stat_text) /\ ~Contains(m_title.stat_text, Hidden)

\* stat_texts after the loop over the mods rows.
RECURSIVE StatTexts(_, _)
StatTexts(rows, map) ==
    IF rows = <<>> THEN map
    ELSE LET m_title == Head(rows) IN
         StatTexts(Tail(rows),
            IF KeepsStatText(m_title)
            THEN SetKey(map, m_title.id, m_title.stat_text)
            ELSE map)

\* item_stats_map after the loop over the item_stats rows.
RECURSIVE ItemStatsMap(_, _)
ItemStatsMap(rows, map) ==
    IF rows = <<>> THEN map
    ELSE LET s_title == Head(rows) IN
         ItemStatsMap(Tail(rows),
            SetKey(map, s_title.mod_id,
                IF HasKey(map, s_title.mod_id)
                THEN Append(GetKey(map, s_title.mod_id), s_title)
                ELSE <<s_title>>))

\* The length of the run of digits of s that starts at i.
DigitRun(s, i) ==
    IF i > Len(s) \/ ~IsDigit(s[i]) THEN 0
    ELSE LET stops == {j \in i..Len(s) : ~IsDigit(s[j])}
         IN IF stops = {} THEN Len(s) - i + 1
            ELSE (CHOOSE j \in stops : \A k \in stops : j <= k) - i

\* The index of the last character of the match of \(\d+-\d+\) that starts
\* at i, or 0.
RangeMatchEnd(s, i) ==
    IF i > Len(s) \/ s[i] # "(" THEN 0
    ELSE LET a == DigitRun(s, i + 1)
             dash == i + 1 + a
         IN IF a = 0 \/ dash > Len(s) \/ s[dash] # "-" THEN 0
            ELSE LET b == DigitRun(s, dash + 1)
                     close == dash + 1 + b
                 IN IF b = 0 \/ close > Len(s) \/ s[close] # ")" THEN 0
                    ELSE close

\* re.sub(r'\(\d+-\d+\)', repl, s) for a repl without backslashes.
RECURSIVE SubRange(_, _)
SubRange(s, repl) ==
    LET starts == {i \in 1..Len(s) : RangeMatchEnd(s, i) > 0} IN
    IF starts = {} THEN s
    ELSE LET i == CHOOSE j \in starts : \A k \in starts : j <= k
         IN SubSeq(s, 1, i - 1) \o repl \o SubRange(Drop(s, RangeMatchEnd(s, i) + 1), repl)

\* The length of the run of characters of s from i that are not in stop.
RunNotIn(s, i, stop) ==
    IF i > Len(s) THEN 0
    ELSE LET stops == {j \in i..Len(s) : s[j] \in stop}
         IN IF stops = {} THEN Len(s) - i + 1
            ELSE (CHOOSE j \in stops : \A k \in stops : j <= k) - i

\* s[i] and s[i+1] are both c.
TwoAt(s, i, c) == i + 1 <= Len(s) /\ s[i] = c /\ s[i + 1] = c

\* The match of \[\[(?:[^|\]]*\|)?([^\]]+)\]\] that starts at i, as
\* <<first index of group 1, last index of group 1>>, or <<0, 0>>.
LinkMatch(s, i) ==
    IF ~TwoAt(s, i, "[") THEN <<0, 0>>
    ELSE LET j == i + 2
             bar == j + RunNotIn(s, j, {"|", "]"})
             piped == bar <= Len(s) /\ s[bar] = "|"
             g1 == RunNotIn(s, bar + 1, {"]"})
             g0 == RunNotIn(s, j, {"]"})
         IN IF piped /\ g1 > 0 /\ TwoAt(s, bar + 1 + g1, "]")
            THEN <<bar + 1, bar + g1>>
            ELSE IF g0 > 0 /\ TwoAt(s, j + g0, "]")
            THEN <<j, j + g0 - 1>>
            ELSE <<0, 0>>

\* re.sub(r'\[\[(?:[^|\]]*\|)?([^\]]+)\]\]', r'\1', s)
RECURSIVE CleanLinks(_)
CleanLinks(s) ==
    LET starts == {i \in 1..Len(s) : LinkMatch(s, i)[1] > 0} IN
    IF starts = {} THEN s
    ELSE LET i == CHOOSE j \in starts : \A k \in starts : j <= k
             g == LinkMatch(s, i)
         IN SubSeq(s, 1, i - 1) \o SubSeq(s, g[1], g[2]) \o CleanLinks(Drop(s, g[2] + 3))

\* One pass of the loop over the observations of a mod.
Substitute(stat_text, stat) ==
    IF Truthy(stat.min) /\ Truthy(stat.max)
    THEN IF stat.min = stat.max
         THEN Replace(SubRange(stat_text, stat.min), <<"#">>, stat.min)
         ELSE SubRange(stat_text, <<"(">> \o stat.min \o <<"-">> \o stat.max \o <<")">>)
    ELSE stat_text

RECURSIVE SubstituteAll(_, _)
SubstituteAll(stat_text, stats) ==
    IF stats = <<>> THEN stat_text
    ELSE SubstituteAll(Substitute(stat_text, Head(stats)), Tail(stats))

\* The text of one mod: placeholders replaced, wiki links cleaned up.
RenderMod(mod_id, stat_text, stats_map) ==
    CleanLinks(IF HasKey(stats_map, mod_id)
               THEN SubstituteAll(stat_text, GetKey(stats_map, mod_id))
               ELSE stat_text)

\* The assembly with the two lists mixed up.
RECURSIVE Assemble_Swapped(_, _, _, _)
Assemble_Swapped(texts, info_map, stats_map, out) ==
    IF texts = <<>> THEN out
    ELSE LET mod_id == Head(texts)[1]
             stat_text == RenderMod(mod_id, Head(texts)[2], stats_map)
             origin == [mod_id |-> mod_id, template |-> Head(texts)[2]]
         IN IF ~HasKey(info_map, mod_id) THEN out
            ELSE LET info == GetKey(info_map, mod_id) IN
                 Assemble_Swapped(Tail(texts), info_map, stats_map,
                    IF info.is_implicit
                    THEN [out EXCEPT !.explicit = Append(@, stat_text),
                                     !.explicit_from = Append(@, origin)]
                    ELSE IF info.is_explicit
                    THEN [out EXCEPT !.implicit = Append(@, stat_text),
                                     !.implicit_from = Append(@, origin)]
                    ELSE out)

\* The loop that assembles the mods. An id of stat_texts that mod_info_map
\* lacks raises KeyError, which ends the loop with what was appended so far.
RECURSIVE Assemble(_, _, _, _)
Assemble(texts, info_map, stats_map, out) ==
    IF texts = <<>> THEN out
    ELSE LET mod_id == Head(texts)[1]
             stat_text == RenderMod(mod_id, Head(texts)[2], stats_map)
             origin == [mod_id |-> mod_id, template |-> Head(texts)[2]]
         IN IF ~HasKey(info_map, mod_id) THEN out
            ELSE LET info == GetKey(info_map, mod_id) IN
                 Assemble(Tail(texts), info_map, stats_map,
                    IF info.is_implicit
                    THEN [out EXCEPT !.implicit = Append(@, stat_text),
                                     !.implicit_from = Append(@, origin)]
                    ELSE IF info.is_explicit
                    THEN [out EXCEPT !.explicit = Append(@, stat_text),
                                     !.explicit_from = Append(@, origin)]
                    ELSE out)

NoMods == [implicit |-> <<>>, explicit |-> <<>>, implicit_from |-> <<>>, explicit_from |-> <<>>]

\* get_mods_fallback as a function of the three responses. implicit and
\* explicit are the lists it returns; implicit_from and explicit_from name,
\* for each string, the mods row it was rendered from.
get_mods_fallback(item_mods, mods, item_stats) ==
    IF ~item_mods.ok THEN NoMods
    ELSE LET info_map == ModInfoMap(item_mods.rows, <<>>) IN
         IF info_map = <<>> THEN NoMods
         ELSE IF ~mods.ok THEN NoMods
         ELSE Assemble(StatTexts(mods.rows, <<>>), info_map,
                       IF item_stats.ok THEN ItemStatsMap(item_stats.rows, <<>>) ELSE <<>>,
                       NoMods)

(***************************************************************************)
(* The responses get_mods_fallback can receive                             *)
(***************************************************************************)

\* How many item_stats rows a response carries at most.
MaxObs == 2

ModRow(id, is_implicit, is_explicit) ==
    [id |-> id, is_implicit |-> is_implicit, is_explicit |-> is_explicit]

Flags == {<<"1", "0">>, <<"0", "1">>, <<"0", "0">>, <<"1", "1">>}

ItemModsResponses ==
    {Raised, Rows(<<>>), Rows(<<ModRow("", "1", "0")>>)}
    \cup {Rows(<<ModRow("m1", f[1], f[2])>>) : f \in Flags}
    \cup {Rows(<<ModRow("m1", f[1], f[2]), ModRow("m2", g[1], g[2])>>) : f \in Flags, g \in Flags}

Templates ==
    {<<"+","(","1","0","-","2","0",")"," ","t","o"," ","[","[","S","t","r","e","n","g","t","h","]","]">>,
     <<"A","d","d","s"," ","#"," ","t","o"," ","#"," ","[","[","F","i","r","e","|","F","i","r","e"," ","D","a","m","a","g","e","]","]">>,
     <<"(","5","-","9",")"," ","t","o"," ","(","1","-","2",")">>,
     <<"(","1",".","5","-","2",".","5",")","%"," ","o","f"," ","L","i","f","e">>,
     <<"(","3","-","4",")","%"," ","m","o","r","e"," ","#"," ","(","H","i","d","d","e","n",")">>}

TextRow(id, stat_text) == [id |-> id, stat_text |-> stat_text]

\* m9 is a mod the item_mods response never names.
ModsResponses ==
    {Raised, Rows(<<>>), Rows(<<TextRow("m1", None)>>)}
    \cup {Rows(<<TextRow("m1", t)>>) : t \in Templates}
    \cup {Rows(<<TextRow("m1", t), TextRow("m2", u)>>) : t \in Templates, u \in Templates}
    \cup {Rows(<<TextRow("m2", t), TextRow("m1", t)>>) : t \in Templates}
    \cup {Rows(<<TextRow("m1", t), TextRow("m9", t)>>) : t \in Templates}

StatRow(mod_id, min, max) == [mod_id |-> mod_id, min |-> min, max |-> max]

Observations ==
    {StatRow(id, v[1], v[2]) :
        id \in {"m1", "m2"},
        v \in {<<<<"1","5">>, <<"1","5">>>>, <<<<"7">>, <<"7">>>>, <<<<"1","0">>, <<"2","0">>>>, <<None, None>>}}

RECURSIVE SeqsUpTo(_, _)
SeqsUpTo(S, n) ==
    IF n = 0 THEN {<<>>}
    ELSE LET shorter == SeqsUpTo(S, n - 1)
         IN shorter \cup {Append(q, x) : q \in shorter, x \in S}

ItemStatsResponses == {Raised} \cup {Rows(q) : q \in SeqsUpTo(Observations, MaxObs)}

(***************************************************************************)
(* get_mods_fallback, one action per awaited request                       *)
(***************************************************************************)

VARIABLES
    fb_pc,          \* where get_mods_fallback stands
    item_mods,      \* the response to the item_mods query
    mods,           \* the response to the mods query
    item_stats,     \* the response to the item_stats query
    fallback_mods   \* what get_mods_fallback returned

fbVars == <<fb_pc, item_mods, mods, item_stats, fallback_mods>>

FbInit ==
    /\ fb_pc = "idle"
    /\ item_mods = Raised
    /\ mods = Raised
    /\ item_stats = Raised
    /\ fallback_mods = NoMods

\* get_mods_fallback is called.
FbCall ==
    /\ fb_pc = "idle"
    /\ fb_pc' = "item_mods"
    /\ UNCHANGED <<item_mods, mods, item_stats, fallback_mods>>

\* The item_mods query: a failure or an empty mod_info_map ends the call
\* with two empty lists.
FbItemMods ==
    /\ fb_pc = "item_mods"
    /\ \E r \in ItemModsResponses :
         /\ item_mods' = r
         /\ IF r.ok /\ ModInfoMap(r.rows, <<>>) # <<>>
            THEN fb_pc' = "mods"
            ELSE fb_pc' = "returned"
    /\ UNCHANGED <<mods, item_stats, fallback_mods>>

\* The mods query: a failure ends the call with two empty lists.
FbMods ==
    /\ fb_pc = "mods"
    /\ \E r \in ModsResponses :
         /\ mods' = r
         /\ fb_pc' = IF r.ok THEN "item_stats" ELSE "returned"
    /\ UNCHANGED <<item_mods, item_stats, fallback_mods>>

\* The item_stats query, whose failure is only logged, and the assembly.
FbItemStats ==
    /\ fb_pc = "item_stats"
    /\ \E r \in ItemStatsResponses :
         /\ item_stats' = r
         /\ fallback_mods' = get_mods_fallback(item_mods, mods, r)
    /\ fb_pc' = "returned"
    /\ UNCHANGED <<item_mods, mods>>

FbNext == FbCall \/ FbItemMods \/ FbMods \/ FbItemStats

(***************************************************************************)
(* models.py: the field catalog                                            *)
(***************************************************************************)

VARIABLES
    CARGO_MAPPING   \* table -> fields, as loaded from cargo_mapping.json

\* CLASS_TO_TABLE
CLASS_TO_TABLE ==
    << <<<<"O","n","e","-","H","a","n","d","e","d"," ","A","x","e">>, <<"w","e","a","p","o","n","s">>>>,
       <<<<"T","w","o","-","H","a","n","d","e","d"," ","A","x","e">>, <<"w","e","a","p","o","n","s">>>>,
       <<<<"O","n","e","-","H","a","n","d","e","d"," ","M","a","c","e">>, <<"w","e","a","p","o","n","s">>>>,
       <<<<"T","w","o","-","H","a","n","d","e","d"," ","M","a","c","e">>, <<"w","e","a","p","o","n","s">>>>,
       <<<<"O","n","e","-","H","a","n","d","e","d"," ","S","w","o","r","d">>, <<"w","e","a","p","o","n","s">>>>,
       <<<<"T","w","o","-","H","a","n","d","e","d"," ","S","w","o","r","d">>, <<"w","e","a","p","o","n","s">>>>,
       <<<<"B","o","w">>, <<"w","e","a","p","o","n","s">>>>,
       <<<<"C","l","a","w">>, <<"w","e","a","p","o","n","s">>>>,
       <<<<"D","a","g","g","e","r">>, <<"w","e","a","p","o","n","s">>>>,
       <<<<"R","u","n","e"," ","D","a","g","g","e","r">>, <<"w","e","a","p","o","n","s">>>>,
       <<<<"S","t","a","f","f">>, <<"w","e","a","p","o","n","s">>>>,
       <<<<"W","a","r","s","t","a","f","f">>, <<"w","e","a","p","o","n","s">>>>,
       <<<<"W","a","n","d">>, <<"w","e","a","p","o","n","s">>>>,
       <<<<"S","c","e","p","t","r","e">>, <<"w","e","a","p","o","n","s">>>>,
       <<<<"B","o","d","y"," ","A","r","m","o","u","r">>, <<"a","r","m","o","u","r","s">>>>,
       <<<<"H","e","l","m","e","t">>, <<"a","r","m","o","u","r","s">>>>,
       <<<<"B","o","o","t","s">>, <<"a","r","m","o","u","r","s">>>>,
       <<<<"G","l","o","v","e","s">>, <<"a","r","m","o","u","r","s">>>>,
       <<<<"S","h","i","e","l","d">>, <<"a","r","m","o","u","r","s">>>>,
       <<<<"S","k","i","l","l"," ","G","e","m">>, <<"s","k","i","l","l","_","g","e","m","s">>>>,
       <<<<"S","u","p","p","o","r","t"," ","G","e","m">>, <<"s","k","i","l","l","_","g","e","m","s">>>>,
       <<<<"M","a","p">>, <<"m","a","p","s">>>>,
       <<<<"J","e","w","e","l">>, <<"j","e","w","e","l","s">>>>,
       <<<<"A","b","y","s","s"," ","J","e","w","e","l">>, <<"j","e","w","e","l","s">>>>,
       <<<<"F","l","a","s","k">>, <<"f","l","a","s","k","s">>>>,
       <<<<"A","m","u","l","e","t">>, <<"a","m","u","l","e","t","s">>>>,
       <<<<"R","i","n","g">>, <<"i","t","e","m","s">>>>,
       <<<<"B","e","l","t">>, <<"i","t","e","m","s">>>>,
       <<<<"D","i","v","i","n","a","t","i","o","n"," ","C","a","r","d">>, <<"d","i","v","i","n","a","t","i","o","n","_","c","a","r","d","s">>>>,
       <<<<"S","k","i","l","l">>, <<"s","k","i","l","l">>>>,
       <<<<"M","o","n","s","t","e","r">>, <<"m","o","n","s","t","e","r","s">>>>,
       <<<<"P","a","n","t","h","e","o","n">>, <<"p","a","n","t","h","e","o","n">>>>,
       <<<<"P","a","s","s","i","v","e"," ","S","k","i","l","l">>, <<"p","a","s","s","i","v","e","_","s","k","i","l","l","s">>>> >>

\* CLASS_TO_TABLE.get(item_class)
get_table_for_class(item_class) ==
    IF HasKey(CLASS_TO_TABLE, item_class) THEN GetKey(CLASS_TO_TABLE, item_class) ELSE None

\* CARGO_MAPPING.get(table, [])
get_fields_for_table(table) ==
    IF HasKey(CARGO_MAPPING, table) THEN GetKey(CARGO_MAPPING, table) ELSE <<>>

\* x in list
In(x, list) == \E i \in 1..Len(list) : list[i] = x

\* A validate_field that looks the field up as given only.
validate_field_AsGiven(table, field) ==
    IF CARGO_MAPPING = <<>> THEN TRUE
    ELSE In(field, get_fields_for_table(table))

\* validate_field(table, field): true for every field when the mapping is
\* empty.
validate_field(table, field) ==
    IF CARGO_MAPPING = <<>> THEN TRUE
    ELSE LET table_fields == get_fields_for_table(table)
             field_normalized == Replace(field, <<" ">>, <<"_">>)
         IN In(field_normalized, table_fields) \/ In(field, table_fields)

\* One call of validate_field: its arguments, and what it returned ("" until
\* it has).
VARIABLES validation

valVars == <<validation>>

\* The tables and fields validate_field is called with: fields the catalog
\* lists under either spelling, their other spelling, and fields it lacks.
ValidatedTables == {<<"i","t","e","m","s">>, <<"w","e","a","p","o","n","s">>, <<"f","l","a","s","k","s">>, <<"a","m","u","l","e","t","s">>}
ValidatedFields ==
    {<<"n","a","m","e">>, <<"r","a","r","i","t","y">>, <<"i","m","p","l","i","c","i","t","_","m","o","d","s">>, <<"i","m","p","l","i","c","i","t"," ","m","o","d","s">>, <<"e","x","p","l","i","c","i","t","_","m","o","d","s">>,
     <<"e","x","p","l","i","c","i","t"," ","m","o","d","s">>,
     <<"p","h","y","s","i","c","a","l","_","d","a","m","a","g","e","_","m","i","n">>, <<"p","h","y","s","i","c","a","l"," ","d","a","m","a","g","e"," ","m","i","n">>, <<"w","e","a","p","o","n"," ","r","a","n","g","e">>, <<"w","e","a","p","o","n","_","r","a","n","g","e">>,
     <<"f","l","a","v","o","u","r","_","t","e","x","t">>, <<"f","l","a","v","o","u","r"," ","t","e","x","t">>, <<"H","t","m","l","_","C","o","l","o","r">>, <<"h","t","m","l","_","c","o","l","o","r">>, <<"d","u","r","a","t","i","o","n">>,
     <<"c","h","a","r","g","e","s"," ","m","a","x">>, <<"a","t","t","a","c","k","_","s","p","e","e","d">>, <<>>}

NoValidation == [table |-> None, field |-> None, returned |-> ""]

ValInit ==
    \E table \in ValidatedTables, field \in ValidatedFields :
        validation = [table |-> table, field |-> field, returned |-> ""]

ValidateField ==
    /\ validation.returned = ""
    /\ validation' = [validation EXCEPT !.returned =
            IF validate_field(validation.table, validation.field) THEN "True" ELSE "False"]

(***************************************************************************)
(* api.py: populate_item_details, the fields it asks for                   *)
(***************************************************************************)

IMPLICIT_MODS == <<"i","m","p","l","i","c","i","t","_","m","o","d","s">>
EXPLICIT_MODS == <<"e","x","p","l","i","c","i","t","_","m","o","d","s">>

\* The fields the supplementary queries never ask for by name.
IdentityFields ==
    <<<<"n","a","m","e">>, <<"i","t","e","m","_","c","l","a","s","s">>, <<"r","a","r","i","t","y">>, IMPLICIT_MODS, EXPLICIT_MODS, <<"f","l","a","v","o","u","r","_","t","e","x","t">>>>

\* The substrings of the fields they never ask for.
ExcludedPatterns == <<<<"_","m","i","n">>, <<"_","m","a","x">>, <<"a","v","e","r","a","g","e">>, <<"c","o","l","o","r">>, <<"c","o","l","o","u","r">>>>

\* The test of the loop over all_fields, without the pattern test.
IsValidField_AnyPattern(table, f) ==
    /\ ~In(f, IdentityFields)
    /\ validate_field(table, f)

\* The test of the loop over all_fields: f goes to valid_fields.
IsValidField(table, f) ==
    /\ ~In(f, IdentityFields)
    /\ ~\E p \in 1..Len(ExcludedPatterns) : Contains(Lower(f), ExcludedPatterns[p])
    /\ validate_field(table, f)

\* valid_fields for a supplementary table.
ValidFields(table) == SelectSeq(get_fields_for_table(table), LAMBDA f : IsValidField(table, f))

\* name.replace("'", "''")
SafeName(name) == Replace(name, <<"'">>, <<"'", "'">>)

(***************************************************************************)
(* The wiki, as far as the resolver can tell                               *)
(***************************************************************************)

\* The response of the Cargo endpoint that carries an "error" member.
ErrorEnvelope == [ok |-> TRUE, error |-> TRUE, malformed |-> FALSE, rows |-> <<>>]

\* The titles (File:...) a request to the image endpoint names at most.
ChunkSize == 50

\* limit=10
DefaultLimit == 10

SearchRow(name, rarity, class, inventory_icon) ==
    [name |-> name, rarity |-> rarity, class |-> class, inventory_icon |-> inventory_icon]

StarforgeRow ==
    SearchRow(<<"S","t","a","r","f","o","r","g","e">>, <<"U","n","i","q","u","e">>, <<"T","w","o","-","H","a","n","d","e","d"," ","S","w","o","r","d">>, <<"F","i","l","e",":","S","t","a","r","f","o","r","g","e"," ","i","n","v","e","n","t","o","r","y"," ","i","c","o","n",".","p","n","g">>)
ReplicaRow ==
    SearchRow(<<"R","e","p","l","i","c","a"," ","S","t","a","r","f","o","r","g","e">>, <<"U","n","i","q","u","e">>, <<"A","m","u","l","e","t">>, <<"F","i","l","e",":","R","e","p","l","i","c","a",".","p","n","g">>)
PromiseRow ==
    SearchRow(<<"A","t","z","i","r","i","'","s"," ","P","r","o","m","i","s","e">>, <<"U","n","i","q","u","e">>, <<"F","l","a","s","k">>, <<"F","i","l","e",":","A","t","z","i","r","i","'","s"," ","P","r","o","m","i","s","e"," ","i","n","v","e","n","t","o","r","y"," ","i","c","o","n",".","p","n","g">>)
BlankRow == SearchRow(None, None, None, None)

\* What the search can answer with.
SearchResponses ==
    {Raised, ErrorEnvelope, Malformed, Rows(<<>>), Rows(<<StarforgeRow>>), Rows(<<PromiseRow>>),
     Rows(<<BlankRow>>), Rows(<<ReplicaRow, StarforgeRow>>)}

\* The names the resolver is asked for.
ApiNames == {<<"S","t","a","r","f","o","r","g","e">>, <<"a","t","z","i","r","i","'","s"," ","p","r","o","m","i","s","e">>, <<"N","o"," ","S","u","c","h"," ","I","t","e","m">>}

\* The limit of the detailed searches.
DetailedLimit == 1

QueryItems(name, limit, detailed, include_mods) ==
    [fn |-> "query_items", name |-> name, limit |-> limit, detailed |-> detailed,
     include_mods |-> include_mods]

\* get_item_details searches with limit=10, detailed=False.
GetItemDetails(name, include_mods) ==
    [fn |-> "get_item_details", name |-> name, limit |-> DefaultLimit, detailed |-> FALSE,
     include_mods |-> include_mods]

Calls ==
    {QueryItems(n, DefaultLimit, FALSE, TRUE) : n \in ApiNames}
    \cup {QueryItems(<<"S","t","a","r","f","o","r","g","e">>, DetailedLimit, TRUE, m) : m \in BOOLEAN}
    \cup {GetItemDetails(n, m) : n \in ApiNames, m \in BOOLEAN}
    \cup {GetItemDetails(<<"s","t","a","r">>, FALSE)}

\* cargo_mapping.json: absent, and one whose items table lacks
\* explicit_mods and which has no amulets table.
Catalogs ==
    { <<>>,
      << <<<<"i","t","e","m","s">>, <<<<"n","a","m","e">>, <<"r","a","r","i","t","y">>, IMPLICIT_MODS>> >>,
         <<<<"w","e","a","p","o","n","s">>, <<<<"n","a","m","e">>, <<"p","h","y","s","i","c","a","l","_","d","a","m","a","g","e","_","m","i","n">>, <<"p","h","y","s","i","c","a","l","_","d","a","m","a","g","e","_","m","a","x">>,
                          <<"p","h","y","s","i","c","a","l","_","d","a","m","a","g","e","_","r","a","n","g","e","_","t","e","x","t">>, <<"p","h","y","s","i","c","a","l","_","d","a","m","a","g","e","_","r","a","n","g","e","_","a","v","e","r","a","g","e">>,
                          <<"p","h","y","s","i","c","a","l","_","d","a","m","a","g","e","_","r","a","n","g","e","_","c","o","l","o","u","r">>, <<"w","e","a","p","o","n"," ","r","a","n","g","e">>,
                          <<"f","l","a","v","o","u","r","_","t","e","x","t">>>> >>,
         <<<<"f","l","a","s","k","s">>, <<<<"c","h","a","r","g","e","s","_","m","a","x">>, <<"H","t","m","l","_","C","o","l","o","r">>, <<"d","u","r","a","t","i","o","n">>>> >> >> }

\* The mod text the items table can hold for a side.
PrimaryText(side) ==
    IF side = "implicit" THEN <<"P","r","i","m","a","r","y"," ","i","m","p","l","i","c","i","t">> ELSE <<"P","r","i","m","a","r","y"," ","e","x","p","l","i","c","i","t","<","b","r",">","s","e","c","o","n","d">>

\* What a single-field query of the items table can answer with: a failure,
\* an error envelope, no row, a row without the value, a row with it.
PrimaryResponses(side) ==
    {Raised, ErrorEnvelope, Malformed, Rows(<<>>), Rows(<<None>>), Rows(<<PrimaryText(side)>>)}

\* The three responses get_mods_fallback can meet.
FallbackScenarios ==
    { <<Raised, Raised, Raised>>,
      <<ErrorEnvelope, Raised, Raised>>,
      <<Malformed, Raised, Raised>>,
      <<Rows(<<ModRow("m1", "1", "0")>>), ErrorEnvelope, Raised>>,
      <<Rows(<<ModRow("m1", "1", "0")>>), Malformed, Raised>>,
      <<Rows(<<ModRow("m1", "1", "0")>>), Raised, Raised>>,
      <<Rows(<<ModRow("m1", "1", "0")>>),
        Rows(<<TextRow("m1", <<"+","(","1","0","-","2","0",")"," ","t","o"," ","[","[","S","t","r","e","n","g","t","h","]","]">>)>>),
        ErrorEnvelope>>,
      <<Rows(<<ModRow("m1", "1", "0")>>),
        Rows(<<TextRow("m1", <<"+","(","1","0","-","2","0",")"," ","t","o"," ","[","[","S","t","r","e","n","g","t","h","]","]">>)>>),
        Malformed>>,
      <<Rows(<<ModRow("m1", "1", "0"), ModRow("m2", "0", "1"), ModRow("m3", "0", "1")>>),
        Rows(<<TextRow("m1", <<"+","(","1","0","-","2","0",")"," ","t","o"," ","[","[","S","t","r","e","n","g","t","h","]","]">>),
               TextRow("m2", <<"A","d","d","s"," ","#"," ","t","o"," ","#"," ","[","[","F","i","r","e","|","F","i","r","e"," ","D","a","m","a","g","e","]","]">>),
               TextRow("m3", <<"(","5","-","9",")"," ","t","o"," ","(","1","-","2",")">>)>>),
        Rows(<<StatRow("m1", <<"1","5">>, <<"1","5">>)>>)>>,
      <<Rows(<<ModRow("m1", "0", "1"), ModRow("m2", "0", "1")>>),
        Rows(<<TextRow("m1", <<"(","3","-","4",")","%"," ","m","o","r","e"," ","#"," ","(","H","i","d","d","e","n",")">>),
               TextRow("m2", <<"A","d","d","s"," ","#"," ","t","o"," ","#"," ","[","[","F","i","r","e","|","F","i","r","e"," ","D","a","m","a","g","e","]","]">>)>>),
        Raised>>,
      <<Rows(<<ModRow("m1", "1", "0")>>),
        Rows(<<TextRow("m1", <<"+","(","1","0","-","2","0",")"," ","t","o"," ","[","[","S","t","r","e","n","g","t","h","]","]">>)>>),
        Rows(<<StatRow("m1", <<"1","0">>, <<"2","0">>)>>)>> }

MetaRow(required_level, flavour_text, description) ==
    [required_level |-> required_level, flavour_text |-> flavour_text,
     description |-> description]

MetadataResponses ==
    {Raised, ErrorEnvelope, Malformed, Rows(<<>>),
     Rows(<<MetaRow(<<"6","7">>, <<"T","h","e"," ","e","n","d"," ","i","s"," ","w","r","i","t","t","e","n"," ","<","i",">","i","n","t","o","<","/","i",">"," ","t","h","e"," ","b","e","g","i","n","n","i","n","g",".">>, None)>>),
     Rows(<<MetaRow(<<>>, None, <<"R","i","g","h","t"," ","c","l","i","c","k"," ","t","o"," ","d","r","i","n","k",".">>)>>)}

\* The value the supplementary table holds for a field.
SupValue(f) == <<"1",".","3","0">>

(***************************************************************************)
(* api.py: query_items, get_item_details and populate_item_details, one    *)
(* action per awaited request                                              *)
(***************************************************************************)

VARIABLES
    api_pc,        \* where the call stands
    call,          \* the function called and its arguments
    data,          \* query_items: the response to the search
    raw_results,   \* query_items: the rows of the search
    icon_files,    \* get_image_urls: file_names
    image_urls,    \* get_image_urls: results
    items,         \* query_items: the records built from the rows
    cur,           \* the index in items of the record populate_item_details works on
    pos,           \* the position of the loop the call stands in
    implicit,      \* populate_item_details: implicit
    explicit,      \* populate_item_details: explicit
    primary_mods,  \* implicit and explicit as the primary path left them
    queries,       \* the requests sent so far, in order
    response,      \* the response to the last of them
    returned       \* how the call ended: "" while it runs

apiVars == <<CARGO_MAPPING, api_pc, call, data, raw_results, icon_files, image_urls, items, cur,
             pos, implicit, explicit, primary_mods, queries, response, returned>>

NoCall == [fn |-> "", name |-> None, limit |-> 0, detailed |-> FALSE, include_mods |-> FALSE]
NoPrimary == [implicit |-> None, explicit |-> None]

ApiInit ==
    /\ CARGO_MAPPING \in Catalogs
    /\ api_pc = "idle"
    /\ call = NoCall
    /\ data = Raised
    /\ raw_results = <<>>
    /\ icon_files = <<>>
    /\ image_urls = <<>>
    /\ items = <<>>
    /\ cur = 0
    /\ pos = 0
    /\ implicit = None
    /\ explicit = None
    /\ primary_mods = NoPrimary
    /\ queries = <<>>
    /\ response = Raised
    /\ returned = ""

\* A request: the endpoint's table, the fields asked for, the where clause.
Query(kind, tables, fields, where) ==
    [kind |-> kind, tables |-> tables, fields |-> fields, where |-> where]

\* query_items or get_item_details is called.
ApiCall ==
    /\ api_pc = "idle"
    /\ \E c \in Calls : call' = c
    /\ api_pc' = "search"
    /\ UNCHANGED <<CARGO_MAPPING, data, raw_results, icon_files, image_urls, items, cur, pos,
                   implicit, explicit, primary_mods, queries, response, returned, fbVars>>

\* item_data.get(key) or "Unknown"
OrUnknown(v) == OrElse(v, <<"U","n","k","n","o","w","n">>)

\* image_urls.get(title)
UrlOf(urls, title) == IF HasKey(urls, title) THEN GetKey(urls, title) ELSE None

\* The records query_items builds from the rows.
BuildItems(rows, urls) ==
    [i \in 1..Len(rows) |->
        Item(OrUnknown(rows[i].name), OrUnknown(rows[i].rarity), OrUnknown(rows[i].class),
             UrlOf(urls, rows[i].inventory_icon))]

\* The first record whose name contains the name asked for, exact or not.
BestMatch_SubstringFirst(results, name) ==
    LET partial == {i \in 1..Len(results) : Contains(Lower(results[i].name), Lower(name))}
    IN IF partial # {} THEN CHOOSE i \in partial : \A j \in partial : i <= j ELSE 0

\* The first record, whatever its name.
BestMatch_First(results, name) == IF results # <<>> THEN 1 ELSE 0

\* get_item_details, the best match: the first record whose name is the
\* name asked for, else the first whose name contains it, ignoring case;
\* 0 when there is none.
BestMatch(results, name) ==
    LET exact == {i \in 1..Len(results) : Lower(results[i].name) = Lower(name)}
        partial == {i \in 1..Len(results) : Contains(Lower(results[i].name), Lower(name))}
        first(S) == CHOOSE i \in S : \A j \in S : i <= j
    IN IF exact # {} THEN first(exact)
       ELSE IF partial # {} THEN first(partial)
       ELSE 0

\* The positions of the loop over the two mod fields and their two
\* spellings: 1 and 2 ask for the implicit mods, 3 and 4 for the explicit
\* mods, 5 is the end of the loop.
SideOf(p) == IF p <= 2 THEN "implicit" ELSE "explicit"
FieldToCheck(p) == IF p <= 2 THEN IMPLICIT_MODS ELSE EXPLICIT_MODS
FieldName(p) ==
    IF p % 2 = 1 THEN FieldToCheck(p) ELSE Replace(FieldToCheck(p), <<"_">>, <<" ">>)

\* The first position at or after p whose field validate_field accepts.
SkipInvalid(p) ==
    LET q == IF p <= 2 /\ ~validate_field(<<"i","t","e","m","s">>, IMPLICIT_MODS) THEN 3 ELSE p
    IN IF q \in {3, 4} /\ ~validate_field(<<"i","t","e","m","s">>, EXPLICIT_MODS) THEN 5 ELSE q

\* Where a call goes next: the action to take, the record and the loop
\* position it takes it on, and how the call ended if it did.
Ctl(p, c, l, r, fresh) == [pc |-> p, cur |-> c, pos |-> l, returned |-> r, fresh |-> fresh]
Return(r) == Ctl("done", 0, 0, r, FALSE)

\* The start of populate_item_details on record i.
Populate(c, i) ==
    IF c.include_mods
    THEN IF SkipInvalid(1) = 5 THEN Ctl("fallback", i, 0, "", TRUE)
         ELSE Ctl("primary", i, SkipInvalid(1), "", TRUE)
    ELSE Ctl("metadata", i, 0, "", TRUE)

\* After the records are built, with query_items populating them whether
\* detailed or not.
AfterBuild_AlwaysDetailed(c, its) ==
    IF c.fn = "query_items"
    THEN IF its # <<>> THEN Populate(c, 1) ELSE Return("list")
    ELSE IF its = <<>> THEN Return("None")
    ELSE IF BestMatch(its, c.name) = 0 THEN Return("None")
    ELSE Populate(c, BestMatch(its, c.name))

\* After the records are built: query_items populates each when detailed,
\* get_item_details populates the best match.
AfterBuild(c, its) ==
    IF c.fn = "query_items"
    THEN IF c.detailed /\ its # <<>> THEN Populate(c, 1) ELSE Return("list")
    ELSE IF its = <<>> THEN Return("None")
    ELSE IF BestMatch(its, c.name) = 0 THEN Return("None")
    ELSE Populate(c, BestMatch(its, c.name))

\* After populate_item_details returns: get_item_details returns
\* target_item, the record at i.
AfterPopulate(c, its, i) ==
    IF c.fn \in {"get_item_details", "populate_item_details"}
    THEN Ctl("done", i, 0, "item", FALSE)
    ELSE IF i < Len(its) THEN Populate(c, i + 1)
    ELSE Return("list")

\* After the metadata, and after the supplementary stats.
AfterMetadata(c, its, i) ==
    LET supplementary_table == get_table_for_class(its[i].item_class)
    IN IF supplementary_table # None /\ ValidFields(supplementary_table) # <<>>
       THEN Ctl("sup_batch", i, 0, "", FALSE)
       ELSE AfterPopulate(c, its, i)

Goto(ctl) ==
    /\ api_pc' = ctl.pc
    /\ cur' = ctl.cur
    /\ pos' = ctl.pos
    /\ returned' = ctl.returned
    /\ IF ctl.fresh
       THEN /\ primary_mods' = NoPrimary
            /\ fb_pc' = "idle"
            /\ item_mods' = Raised
            /\ mods' = Raised
            /\ item_stats' = Raised
            /\ fallback_mods' = NoMods
       ELSE UNCHANGED <<primary_mods, fbVars>>

\* The distinct icons of the rows, in each order a set can list them.
Orders(S) == {q \in [1..Cardinality(S) -> S] : \A i, j \in DOMAIN q : i # j => q[i] # q[j]}
Icons(rows) == {rows[i].inventory_icon : i \in {j \in 1..Len(rows) : Truthy(rows[j].inventory_icon)}}

\* The search of query_items, answered with at most limit rows. A failure of
\* the request propagates; an error envelope is an empty list; rows without
\* icons are built at once.
Search ==
    /\ api_pc = "search"
    /\ queries' = Append(queries,
          Query("search", <<"i","t","e","m","s">>, <<<<"n","a","m","e">>, <<"r","a","r","i","t","y">>, <<"c","l","a","s","s">>, <<"i","n","v","e","n","t","o","r","y","_","i","c","o","n">>>>,
                <<"n","a","m","e"," ","L","I","K","E"," ","\"","%">> \o call.name \o <<"%","\"">>))
    /\ \E r \in {x \in SearchResponses : Len(x.rows) <= call.limit} :
         /\ data' = r
         /\ response' = r
         /\ IF ~r.ok
            THEN /\ Goto(Return("raise"))
                 /\ UNCHANGED <<raw_results, icon_files, items>>
            ELSE IF r.error
            THEN /\ Goto(AfterBuild(call, <<>>))
                 /\ UNCHANGED <<raw_results, icon_files, items>>
            ELSE /\ raw_results' = r.rows
                 /\ IF Icons(r.rows) = {}
                    THEN /\ items' = BuildItems(r.rows, <<>>)
                         /\ Goto(AfterBuild(call, BuildItems(r.rows, <<>>)))
                         /\ UNCHANGED icon_files
                    ELSE /\ \E q \in Orders(Icons(r.rows)) : icon_files' = q
                         /\ Goto(Ctl("images", 0, 1, "", FALSE))
                         /\ UNCHANGED items
    /\ UNCHANGED <<CARGO_MAPPING, call, image_urls, implicit, explicit>>

\* file_names[i:i+50]
Chunk(file_names, i) ==
    SubSeq(file_names, i, IF i + ChunkSize - 1 < Len(file_names) THEN i + ChunkSize - 1
                          ELSE Len(file_names))

\* The URL the image endpoint gives for a title.
ImageUrl(title) == <<"h","t","t","p","s",":","/","/","c","d","n",".","e","x","a","m","p","l","e","/">> \o title

\* results[title] = url for each title of the response, in order: a title
\* already resolved keeps its place, a new one goes to the end.
SetAll(urls, titles) ==
    LET fresh == SelectSeq(titles, LAMBDA title : ~HasKey(urls, title))
    IN [i \in 1..Len(urls) |->
           IF In(urls[i][1], titles) THEN <<urls[i][1], ImageUrl(urls[i][1])>> ELSE urls[i]]
       \o [i \in 1..Len(fresh) |-> <<fresh[i], ImageUrl(fresh[i])>>]

\* get_image_urls with the try around the whole loop: the first failing
\* chunk ends the loop.
ImageChunk_Abort ==
    /\ api_pc = "images"
    /\ LET chunk == Chunk(icon_files, pos)
           last == pos + ChunkSize > Len(icon_files)
       IN /\ queries' = Append(queries, Query("images", <<>>, chunk, <<>>))
          /\ \E r \in {Raised, Rows(<<>>), Rows(<<chunk[1]>>), Rows(chunk)} :
               LET urls == SetAll(image_urls, r.rows) IN
               /\ response' = r
               /\ image_urls' = urls
               /\ IF last \/ ~r.ok
                  THEN /\ items' = BuildItems(raw_results, urls)
                       /\ Goto(AfterBuild(call, BuildItems(raw_results, urls)))
                  ELSE /\ Goto(Ctl("images", 0, pos + ChunkSize, "", FALSE))
                       /\ UNCHANGED items
    /\ UNCHANGED <<CARGO_MAPPING, call, data, raw_results, icon_files, implicit, explicit>>

\* get_image_urls, one chunk: a failure is logged and the chunk resolves
\* nothing; a page without imageinfo resolves nothing.
ImageChunk ==
    /\ api_pc = "images"
    /\ LET chunk == Chunk(icon_files, pos)
           last == pos + ChunkSize > Len(icon_files)
       IN /\ queries' = Append(queries, Query("images", <<>>, chunk, <<>>))
          /\ \E r \in {Raised, Rows(<<>>), Rows(<<chunk[1]>>), Rows(chunk)} :
               LET urls == SetAll(image_urls, r.rows) IN
               /\ response' = r
               /\ image_urls' = urls
               /\ IF last
                  THEN /\ items' = BuildItems(raw_results, urls)
                       /\ Goto(AfterBuild(call, BuildItems(raw_results, urls)))
                  ELSE /\ Goto(Ctl("images", 0, pos + ChunkSize, "", FALSE))
                       /\ UNCHANGED items
    /\ UNCHANGED <<CARGO_MAPPING, call, data, raw_results, icon_files, implicit, explicit>>

\* The locals of populate_item_details start as None.
Locals(ctl) ==
    IF ctl.fresh THEN implicit' = None /\ explicit' = None
    ELSE UNCHANGED <<implicit, explicit>>

WhereName(name) == <<"n","a","m","e","=","'">> \o SafeName(name) \o <<"'">>
WherePage(name) == <<"_","p","a","g","e","N","a","m","e","=","'">> \o SafeName(name) \o <<"'">>

\* One request of the primary path: a field of the items table under one
\* spelling. A failure, an error envelope and an empty answer leave the
\* locals alone; a value ends the spellings of its field. After the last
\* request the mods are stored at once when both sides have a value.
PrimaryQuery ==
    /\ api_pc = "primary"
    /\ queries' = Append(queries,
          Query("mods", <<"i","t","e","m","s">>, <<FieldName(pos)>>, WhereName(items[cur].name)))
    /\ \E r \in PrimaryResponses(SideOf(pos)) :
         LET cq == IF r.ok /\ ~r.error THEN r.rows ELSE <<>>
             val == IF cq # <<>> THEN cq[1] ELSE None
             imp == IF cq # <<>> /\ pos <= 2 THEN OrElse(val, implicit) ELSE implicit
             exp == IF cq # <<>> /\ pos > 2 THEN OrElse(val, explicit) ELSE explicit
             next == SkipInvalid(IF Truthy(val) THEN (IF pos <= 2 THEN 3 ELSE 5) ELSE pos + 1)
         IN /\ response' = r
            /\ implicit' = imp
            /\ explicit' = exp
            /\ IF next < 5
               THEN /\ api_pc' = "primary"
                    /\ pos' = next
                    /\ UNCHANGED <<items, primary_mods>>
               ELSE /\ pos' = 0
                    /\ primary_mods' = [implicit |-> imp, explicit |-> exp]
                    /\ IF ~Truthy(imp) \/ ~Truthy(exp)
                       THEN /\ api_pc' = "fallback"
                            /\ UNCHANGED items
                       ELSE /\ api_pc' = "metadata"
                            /\ items' = [items EXCEPT ![cur].implicit_mods = imp,
                                                      ![cur].explicit_mods = exp]
    /\ UNCHANGED <<CARGO_MAPPING, call, data, raw_results, icon_files, image_urls, cur,
                   returned, fbVars>>

BR == <<"<","b","r",">">>

\* The merge that prefers the fallback list to the primary value.
Merge_FallbackFirst(primary, fallback) ==
    IF fallback # <<>> THEN Join(BR, fallback) ELSE primary

\* The merge of one side: the fallback list fills a side the primary path
\* left without a value.
Merge(primary, fallback) ==
    IF fallback # <<>> /\ ~Truthy(primary) THEN Join(BR, fallback) ELSE primary

\* The requests get_mods_fallback sends when it meets the three responses.
FallbackQueries(name, s) ==
    LET q1 == Query("item_mods", <<"i","t","e","m","_","m","o","d","s">>, <<<<"i","d">>, <<"i","s","_","i","m","p","l","i","c","i","t">>, <<"i","s","_","e","x","p","l","i","c","i","t">>>>,
                    WherePage(name))
        q2 == Query("fallback_mods", <<"m","o","d","s">>, <<<<"i","d">>, <<"s","t","a","t","_","t","e","x","t">>>>, <<>>)
        q3 == Query("item_stats", <<"i","t","e","m","_","s","t","a","t","s">>, <<<<"m","o","d","_","i","d">>, <<"m","i","n">>, <<"m","a","x">>, <<"a","v","g">>>>, <<>>)
    IN IF ~s[1].ok \/ ModInfoMap(s[1].rows, <<>>) = <<>> THEN <<q1>>
       ELSE IF ~s[2].ok THEN <<q1, q2>>
       ELSE <<q1, q2, q3>>

\* get_mods_fallback, called when a side has no value, and the merge.
Fallback ==
    /\ api_pc = "fallback"
    /\ \E s \in FallbackScenarios :
         LET asked == Len(FallbackQueries(items[cur].name, s))
             fm == get_mods_fallback(s[1], s[2], s[3])
             imp == Merge(implicit, fm.implicit)
             exp == Merge(explicit, fm.explicit)
         IN /\ queries' = queries \o FallbackQueries(items[cur].name, s)
            /\ response' = s[asked]
            /\ item_mods' = s[1]
            /\ mods' = IF asked >= 2 THEN s[2] ELSE Raised
            /\ item_stats' = IF asked >= 3 THEN s[3] ELSE Raised
            /\ fallback_mods' = fm
            /\ implicit' = imp
            /\ explicit' = exp
            /\ items' = [items EXCEPT ![cur].implicit_mods = imp, ![cur].explicit_mods = exp]
    /\ fb_pc' = "returned"
    /\ api_pc' = "metadata"
    /\ UNCHANGED <<CARGO_MAPPING, call, data, raw_results, icon_files, image_urls, cur, pos,
                   primary_mods, returned>>

\* The metadata step storing what it fetched, empty or not.
Metadata_Overwrite ==
    /\ api_pc = "metadata"
    /\ queries' = Append(queries,
          Query("metadata", <<"i","t","e","m","s">>, <<<<"r","e","q","u","i","r","e","d","_","l","e","v","e","l">>, <<"f","l","a","v","o","u","r","_","t","e","x","t">>, <<"d","e","s","c","r","i","p","t","i","o","n">>>>,
                WhereName(items[cur].name)))
    /\ \E r \in MetadataResponses :
         LET its == IF r.ok /\ r.rows # <<>>
                    THEN [items EXCEPT
                            ![cur].required_level = r.rows[1].required_level,
                            ![cur].flavour_text = r.rows[1].flavour_text,
                            ![cur].description = r.rows[1].description]
                    ELSE items
         IN /\ response' = r
            /\ items' = its
            /\ Goto(AfterMetadata(call, its, cur))
            /\ Locals(AfterMetadata(call, its, cur))
    /\ UNCHANGED <<CARGO_MAPPING, call, data, raw_results, icon_files, image_urls>>

\* A metadata query whose failure is not caught.
Metadata_Unguarded ==
    /\ api_pc = "metadata"
    /\ queries' = Append(queries,
          Query("metadata", <<"i","t","e","m","s">>, <<<<"r","e","q","u","i","r","e","d","_","l","e","v","e","l">>, <<"f","l","a","v","o","u","r","_","t","e","x","t">>, <<"d","e","s","c","r","i","p","t","i","o","n">>>>,
                WhereName(items[cur].name)))
    /\ \E r \in MetadataResponses :
         LET its == IF r.ok /\ r.rows # <<>>
                    THEN [items EXCEPT
                            ![cur].required_level = OrElse(r.rows[1].required_level, @),
                            ![cur].flavour_text = OrElse(r.rows[1].flavour_text, @),
                            ![cur].description = OrElse(r.rows[1].description, @)]
                    ELSE items
             ctl == IF r.ok THEN AfterMetadata(call, its, cur) ELSE Return("raise")
         IN /\ response' = r
            /\ items' = its
            /\ Goto(ctl)
            /\ Locals(ctl)
    /\ UNCHANGED <<CARGO_MAPPING, call, data, raw_results, icon_files, image_urls>>

\* The metadata query: a value of the answer replaces the record's, an
\* absent or empty one leaves it; a failure is logged.
Metadata ==
    /\ api_pc = "metadata"
    /\ queries' = Append(queries,
          Query("metadata", <<"i","t","e","m","s">>, <<<<"r","e","q","u","i","r","e","d","_","l","e","v","e","l">>, <<"f","l","a","v","o","u","r","_","t","e","x","t">>, <<"d","e","s","c","r","i","p","t","i","o","n">>>>,
                WhereName(items[cur].name)))
    /\ \E r \in MetadataResponses :
         LET its == IF r.ok /\ r.rows # <<>>
                    THEN [items EXCEPT
                            ![cur].required_level = OrElse(r.rows[1].required_level, @),
                            ![cur].flavour_text = OrElse(r.rows[1].flavour_text, @),
                            ![cur].description = OrElse(r.rows[1].description, @)]
                    ELSE items
         IN /\ response' = r
            /\ items' = its
            /\ Goto(AfterMetadata(call, its, cur))
            /\ Locals(AfterMetadata(call, its, cur))
    /\ UNCHANGED <<CARGO_MAPPING, call, data, raw_results, icon_files, image_urls>>

\* item.stats[f.replace(" ", "_")] = val for each field of fields the title
\* has a value for under f.replace("_", " ").
RECURSIVE StoreStats(_, _, _)
StoreStats(stats, fields, title) ==
    IF fields = <<>> THEN stats
    ELSE LET f == Head(fields)
             key == Replace(f, <<"_">>, <<" ">>)
             val == IF HasKey(title, key) THEN GetKey(title, key) ELSE None
         IN StoreStats(IF Truthy(val) THEN SetKey(stats, Replace(f, <<" ">>, <<"_">>), val)
                       ELSE stats,
                       Tail(fields), title)

\* The title of a supplementary row that has a value for each of fields.
TitleOf(fields) ==
    [i \in 1..Len(fields) |-> <<Replace(fields[i], <<"_">>, <<" ">>), SupValue(fields[i])>>]

\* What a supplementary query for fields can answer with: a failure, no
\* row, a row with every value, a row with the first value, a row of empty
\* values.
SupResponses(fields) ==
    {Raised, ErrorEnvelope, Malformed, Rows(<<>>), Rows(<<TitleOf(fields)>>),
     Rows(<<TitleOf(<<fields[1]>>)>>),
     Rows(<< << <<Replace(fields[1], <<"_">>, <<" ">>), <<>>>> >> >>)}

\* The batched supplementary query without the per-field queries after a
\* failure.
SupBatch_NoFallback ==
    /\ api_pc = "sup_batch"
    /\ LET supplementary_table == get_table_for_class(items[cur].item_class)
           valid_fields == ValidFields(supplementary_table)
       IN /\ queries' = Append(queries,
                Query("sup_batch", supplementary_table, valid_fields,
                      WherePage(items[cur].name)))
          /\ \E r \in SupResponses(valid_fields) :
               /\ response' = r
               /\ LET its == IF r.ok /\ r.rows # <<>>
                             THEN [items EXCEPT ![cur].stats =
                                      StoreStats(@, valid_fields, r.rows[1])]
                             ELSE items
                  IN /\ items' = its
                     /\ Goto(AfterPopulate(call, its, cur))
                     /\ Locals(AfterPopulate(call, its, cur))
    /\ UNCHANGED <<CARGO_MAPPING, call, data, raw_results, icon_files, image_urls>>

\* The batched supplementary query: a failure starts the per-field queries.
SupBatch ==
    /\ api_pc = "sup_batch"
    /\ LET supplementary_table == get_table_for_class(items[cur].item_class)
           valid_fields == ValidFields(supplementary_table)
       IN /\ queries' = Append(queries,
                Query("sup_batch", supplementary_table, valid_fields,
                      WherePage(items[cur].name)))
          /\ \E r \in SupResponses(valid_fields) :
               /\ response' = r
               /\ IF ~r.ok
                  THEN /\ Goto(Ctl("sup_field", cur, 1, "", FALSE))
                       /\ UNCHANGED <<items, implicit, explicit>>
                  ELSE LET its == IF r.rows # <<>>
                                  THEN [items EXCEPT ![cur].stats =
                                           StoreStats(@, valid_fields, r.rows[1])]
                                  ELSE items
                       IN /\ items' = its
                          /\ Goto(AfterPopulate(call, its, cur))
                          /\ Locals(AfterPopulate(call, its, cur))
    /\ UNCHANGED <<CARGO_MAPPING, call, data, raw_results, icon_files, image_urls>>

\* One per-field supplementary query: its failure is swallowed.
SupField ==
    /\ api_pc = "sup_field"
    /\ LET supplementary_table == get_table_for_class(items[cur].item_class)
           valid_fields == ValidFields(supplementary_table)
           field_to_query == valid_fields[pos]
       IN /\ queries' = Append(queries,
                Query("sup_field", supplementary_table, <<field_to_query>>,
                      WherePage(items[cur].name)))
          /\ \E r \in SupResponses(<<field_to_query>>) :
               LET its == IF r.ok /\ r.rows # <<>>
                          THEN [items EXCEPT ![cur].stats =
                                   StoreStats(@, <<field_to_query>>, r.rows[1])]
                          ELSE items
                   ctl == IF pos < Len(valid_fields)
                          THEN Ctl("sup_field", cur, pos + 1, "", FALSE)
                          ELSE AfterPopulate(call, its, cur)
               IN /\ response' = r
                  /\ items' = its
                  /\ Goto(ctl)
                  /\ Locals(ctl)
    /\ UNCHANGED <<CARGO_MAPPING, call, data, raw_results, icon_files, image_urls>>

ApiNext ==
    \/ ApiCall
    \/ Search
    \/ ImageChunk
    \/ PrimaryQuery
    \/ Fallback
    \/ Metadata
    \/ SupBatch
    \/ SupField

(***************************************************************************)
(* Concurrent resolutions: the Item objects and who touches them           *)
(***************************************************************************)

VARIABLES
    heap,        \* the Item objects created so far
    resolutions  \* each resolution: where it stands, its results, its target_item

concVars == <<heap, resolutions>>

\* The resolutions that run at the same time, and the rows a search answers
\* with at most.
Resolutions == {1, 2}
MaxRows == 2

\* Item(name=..., ...): a new object, with a stats dictionary of its own.
NewItem(r) == [created_by |-> r, written_by |-> {}, read_by |-> {}]

ConcInit ==
    /\ heap = <<>>
    /\ resolutions = [r \in Resolutions |-> [pc |-> "idle", results |-> <<>>, target_item |-> 0]]

\* Where a resolution goes once its records are built: get_item_details
\* populates its target_item, or returns None without one.
Built(r, results, target_item) ==
    resolutions' = [resolutions EXCEPT ![r] =
        [pc |-> IF target_item = 0 THEN "done" ELSE "mods",
         results |-> results, target_item |-> target_item]]

\* A query_items that answers from the objects built before.
ConcQueryItems_Cached(r) ==
    /\ resolutions[r].pc = "idle"
    /\ IF heap # <<>>
       THEN /\ \E target_item \in 0..Len(heap) :
                 Built(r, [i \in 1..Len(heap) |-> i], target_item)
            /\ UNCHANGED heap
       ELSE \E n \in 0..MaxRows :
              /\ heap' = heap \o [i \in 1..n |-> NewItem(r)]
              /\ \E target_item \in {0} \cup {Len(heap) + i : i \in 1..n} :
                   Built(r, [i \in 1..n |-> Len(heap) + i], target_item)
    /\ UNCHANGED CARGO_MAPPING

\* query_items inside get_item_details: one new Item per row of the answer,
\* and the choice of the target_item among them.
ConcQueryItems(r) ==
    /\ resolutions[r].pc = "idle"
    /\ \E n \in 0..MaxRows :
         /\ heap' = heap \o [i \in 1..n |-> NewItem(r)]
         /\ \E target_item \in {0} \cup {Len(heap) + i : i \in 1..n} :
              Built(r, [i \in 1..n |-> Len(heap) + i], target_item)
    /\ UNCHANGED CARGO_MAPPING

\* populate_item_details(target_item, ...), one action per block: each reads
\* the catalog (validate_field, get_table_for_class, get_fields_for_table)
\* and assigns to fields of the object it was given.
ConcPopulate(r) ==
    /\ resolutions[r].pc \in {"mods", "metadata", "stats"}
    /\ heap' = [heap EXCEPT ![resolutions[r].target_item].written_by = @ \cup {r}]
    /\ resolutions' = [resolutions EXCEPT ![r].pc =
            CASE @ = "mods" -> "metadata" [] @ = "metadata" -> "stats" [] OTHER -> "returned"]
    /\ UNCHANGED CARGO_MAPPING

\* resolve_item_details renders the object get_item_details returned.
ConcFormat(r) ==
    /\ resolutions[r].pc = "returned"
    /\ heap' = [heap EXCEPT ![resolutions[r].target_item].read_by = @ \cup {r}]
    /\ resolutions' = [resolutions EXCEPT ![r].pc = "done"]
    /\ UNCHANGED CARGO_MAPPING

ConcNext == \E r \in Resolutions : ConcQueryItems(r) \/ ConcPopulate(r) \/ ConcFormat(r)

(***************************************************************************)
(* Specifications                                                          *)
(***************************************************************************)

vars == <<botVars, fbVars, apiVars, valVars, concVars>>

\* The parts a specification leaves idle.
Idle == BotInit /\ FbInit /\ ApiInit /\ validation = NoValidation /\ ConcInit

\* The bot front end.
Init == Idle /\ CARGO_MAPPING = <<>>
Next == BotNext /\ UNCHANGED <<fbVars, apiVars, valVars, concVars>>
Spec == Init /\ [][Next]_vars

\* get_mods_fallback.
InitFallback == Idle /\ CARGO_MAPPING = <<>>
NextFallback == FbNext /\ UNCHANGED <<botVars, apiVars, valVars, concVars>>
SpecFallback == InitFallback /\ [][NextFallback]_vars

\* query_items, get_item_details and populate_item_details.
InitApi == Idle
NextApi == ApiNext /\ UNCHANGED <<botVars, valVars, concVars>>
SpecApi == InitApi /\ [][NextApi]_vars

\* validate_field, for every catalog, table and field.
InitValidate == BotInit /\ FbInit /\ ApiInit /\ ValInit /\ ConcInit
NextValidate == ValidateField /\ UNCHANGED <<botVars, fbVars, apiVars, concVars>>
SpecValidate == InitValidate /\ [][NextValidate]_vars

\* Two resolutions at the same time, one step of one of them at a time.
InitConc == Idle
NextConc ==
    /\ ConcNext
    /\ UNCHANGED <<botVars, fbVars, valVars, api_pc, call, data, raw_results, icon_files,
                   image_urls, items, cur, pos, implicit, explicit, primary_mods, queries,
                   response, returned>>
SpecConc == InitConc /\ [][NextConc]_vars

\* get_image_urls on its own, called by query_items with the icons of a
\* search that answered with many rows.
MaxIcons == 102
IconCounts == {1, 2, ChunkSize, ChunkSize + 1, ChunkSize + 2, 2 * ChunkSize, MaxIcons - 1, MaxIcons}

\* The k-th icon of such a search.
IconName(k) ==
    <<"F","i","l","e",":">> \o <<Digits[(k \div 100) + 1], Digits[((k \div 10) % 10) + 1], Digits[(k % 10) + 1]>>

ManyRows(n) == [k \in 1..n |-> SearchRow(IconName(k), <<"U","n","i","q","u","e">>, <<"R","i","n","g">>, IconName(k))]

InitImages ==
    /\ BotInit /\ FbInit /\ validation = NoValidation /\ ConcInit
    /\ CARGO_MAPPING = <<>>
    /\ \E n \in IconCounts :
         /\ call = QueryItems(<<"F","i","l","e">>, n, FALSE, TRUE)
         /\ data = Rows(ManyRows(n))
         /\ raw_results = ManyRows(n)
         /\ icon_files = [k \in 1..n |-> IconName(k)]
         /\ queries = <<Query("search", <<"i","t","e","m","s">>,
                              <<<<"n","a","m","e">>, <<"r","a","r","i","t","y">>, <<"c","l","a","s","s">>, <<"i","n","v","e","n","t","o","r","y","_","i","c","o","n">>>>,
                              <<"n","a","m","e"," ","L","I","K","E"," ","\"","%","F","i","l","e","%","\"">>)>>
         /\ response = Rows(ManyRows(n))
    /\ api_pc = "images"
    /\ image_urls = <<>>
    /\ items = <<>>
    /\ cur = 0
    /\ pos = 1
    /\ implicit = None
    /\ explicit = None
    /\ primary_mods = NoPrimary
    /\ returned = ""
NextImages == ImageChunk /\ UNCHANGED <<botVars, valVars, concVars>>
SpecImages == InitImages /\ [][NextImages]_vars

\* populate_item_details(item, client, include_mods=False) on its own, called
\* with a record that may hold values already.
HeldItems == {Starforge, AtzirisPromise, BlackAndWhite, Basic(Starforge), Basic(AtzirisPromise)}

PopulateItemDetails(item_obj) ==
    [fn |-> "populate_item_details", name |-> item_obj.name, limit |-> 0, detailed |-> FALSE,
     include_mods |-> FALSE]

InitPopulate ==
    /\ BotInit /\ FbInit /\ validation = NoValidation /\ ConcInit
    /\ CARGO_MAPPING \in Catalogs
    /\ \E item_obj \in HeldItems :
         /\ call = PopulateItemDetails(item_obj)
         /\ items = <<item_obj>>
    /\ api_pc = Populate(call, 1).pc
    /\ cur = Populate(call, 1).cur
    /\ pos = Populate(call, 1).pos
    /\ returned = ""
    /\ data = Raised
    /\ raw_results = <<>>
    /\ icon_files = <<>>
    /\ image_urls = <<>>
    /\ implicit = None
    /\ explicit = None
    /\ primary_mods = NoPrimary
    /\ queries = <<>>
    /\ response = Raised
NextPopulate == (Metadata \/ SupBatch \/ SupField) /\ UNCHANGED <<botVars, valVars, concVars>>
SpecPopulate == InitPopulate /\ [][NextPopulate]_vars

\* format_content on its own, applied to records whose stats are any
\* selection of StatPairs.
StatPairs ==
    << <<K_pd_range_text, <<"(","1","0","-","2","0",")"," ","&"," ","(","3","0","-","4","0",")">>>>,
       <<K_pd_min, <<"1","1">>>>,
       <<K_pd_max, <<"3","9">>>>,
       <<K_pd, <<"1","5">>>>,
       <<<<"a","r","m","o","u","r","_","r","a","n","g","e","_","t","e","x","t">>, <<"(","1","0","0","-","2","0","0",")">>>>,
       <<<<"a","r","m","o","u","r">>, <<"0">>>>,
       <<<<"b","l","o","c","k","_","r","a","n","g","e","_","t","e","x","t">>, <<"(","6","0","-","7","0",")">>>>,
       <<<<"b","l","o","c","k">>, <<"6","5">>>>,
       <<<<"w","a","r","d">>, <<>>>>,
       <<<<"q","u","a","l","i","t","y">>, <<"0">>>> >>

FormatRecords ==
    {[Item(<<"A","e","g","i","s"," ","A","u","r","o","r","a">>, <<"U","n","i","q","u","e">>, <<"S","h","i","e","l","d">>, None)
        EXCEPT !.stats = SelectSeq(StatPairs, LAMBDA pair : pair[1] \in keys)] :
     keys \in SUBSET {StatPairs[k][1] : k \in 1..Len(StatPairs)}}

\* content = format_content(item, loading_mods=...)
FormatContent ==
    /\ pc = "idle"
    /\ \E rec \in FormatRecords, loading_mods \in BOOLEAN :
         /\ item' = rec
         /\ content' = format_content(rec, loading_mods, WikiUrl(rec.name))
    /\ pc' = "formatted"
    /\ UNCHANGED <<item_name, msg, full_item, log, articles, update, answers>>

InitFormat == Idle /\ CARGO_MAPPING = <<>>
NextFormat == FormatContent /\ UNCHANGED <<fbVars, apiVars, valVars, concVars>>
SpecFormat == InitFormat /\ [][NextFormat]_vars

\* The resolutions of one delivered message, one after the other.  run_bot
\* builds the application without concurrent_updates, so the dispatcher calls
\* the handler of the next update once the handler of the previous one has
\* returned or raised; nothing is kept between two calls.  The update looked
\* at is one that follows a resolution whose resolved content was applied,
\* and the item asked for is Starforge.
MaxResolutions == 2

\* The calls of resolve_item_details so far: each starts with one lookup
\* without mods.
Resolutions_Started == Len(SelectSeq(log, LAMBDA e : e.kind = "lookup" /\ ~e.include_mods))

\* The last call of the log is a Phase 2 edit that was applied.
ResolvedApplied ==
    /\ log # <<>>
    /\ log[Len(log)].kind = "edit"
    /\ log[Len(log)].site = "phase2"
    /\ log[Len(log)].outcome = Delivered

\* application.run_polling(): the next update is handled.
NextUpdate ==
    /\ pc \in {"done", "handler_raised"}
    /\ Resolutions_Started < MaxResolutions
    /\ ResolvedApplied
    /\ pc' = "idle"
    /\ item_name' = None
    /\ msg' = [inline_message_id |-> None, chat_id |-> None, message_id |-> None]
    /\ item' = NoItem
    /\ full_item' = NoItem
    /\ content' = <<>>
    /\ articles' = <<>>
    /\ update' = NoUpdate
    /\ answers' = 0   \* counted for each handler call
    /\ UNCHANGED log

\* The inputs of a specification that follows one item: updates that name
\* Starforge, and one resolved mod text.
OneItem ==
    /\ item_name \in {None, Starforge.name}
    /\ item \in {NoItem, Starforge}
    /\ full_item \in {NoItem, [Starforge EXCEPT !.implicit_mods = <<"I","m","p","l","i","c","i","t"," ","m","o","d">>,
                                                 !.explicit_mods = <<"E","x","p","l","i","c","i","t"," ","m","o","d"," ","1","<","b","r",">","E","x","p","l","i","c","i","t"," ","m","o","d"," ","2">>]}

InitRedelivery == Idle /\ CARGO_MAPPING = <<>>
NextRedelivery ==
    /\ BotNext \/ NextUpdate
    /\ OneItem'
    /\ UNCHANGED <<fbVars, apiVars, valVars, concVars>>
SpecRedelivery == InitRedelivery /\ [][NextRedelivery]_vars

\* The bot front end with progress, for updates that name Starforge.  An
\* update arrives when the user acts, or never; a handler that was called
\* goes on: each call it awaits returns or raises (the HTTP and Telegram
\* clients time out) and the event loop resumes it, so each step of a handler
\* that stays possible is taken.
\* Phase2Plain as pc shows it: it is possible exactly at "phase2_plain" (the
\* edit has an outcome), and no other step leaves that position.
Phase2PlainStep == pc = "phase2_plain" /\ pc' = "done"
NextLive == BotNext /\ OneItem' /\ UNCHANGED <<fbVars, apiVars, valVars, concVars>>
Progress ==
    /\ WF_botVars(CallbackDispatch /\ OneItem')
    /\ WF_botVars(Phase1Lookup /\ OneItem')
    /\ WF_botVars(NotFoundEdit /\ OneItem')
    /\ WF_botVars(Phase1Edit /\ OneItem')
    /\ WF_botVars(Phase1Plain /\ OneItem')
    /\ WF_botVars(Phase2Lookup /\ OneItem')
    /\ WF_botVars(Phase2Edit /\ OneItem')
    /\ WF_pc(Phase2PlainStep)
    /\ WF_botVars(ErrorEdit /\ OneItem')
SpecLive == Init /\ [][NextLive]_vars /\ Progress

(***************************************************************************)
(* Properties of the two-phase reveal (Spec)                               *)
(***************************************************************************)

EditsAt(site) == SelectSeq(log, LAMBDA e : e.kind = "edit" /\ e.site = site)

\* An edit text the truncation left whole.
Untruncated(text) == Len(text) <= ContentBudget

\* C1: when the Phase 1 lookup finds the item, get_item_details is called
\* exactly twice for the item name, first with include_mods=False and then
\* with include_mods=True, and the Phase 1 edit is attempted before the
\* Phase 2 lookup starts.
C1_TwoLookups ==
    /\ Len(Lookups) <= 2
    /\ \A i \in 1..Len(Lookups) :
         Lookups[i].name = item_name /\ Lookups[i].include_mods = (i = 2)
    /\ (pc = "done" /\ item # NoItem) => Len(Lookups) = 2
    /\ \A j \in 1..Len(log) :
         (log[j].kind = "lookup" /\ j > 1) =>
            \E k \in 1..(j - 1) : log[k].kind = "edit" /\ log[k].site = "phase1"

C1_Witness ==
    /\ pc = "done" /\ item # NoItem /\ full_item # NoItem
    /\ Len(Lookups) = 2
    /\ Len(EditsAt("phase1")) = 1 /\ Len(EditsAt("phase2")) = 1

\* C2 as stated: the Phase 1 edit text holds the trailer and no mod block; the
\* Phase 2 edit text of an item with both mods resolved holds no trailer and
\* both mod blocks.
C2_Original ==
    /\ \A i \in 1..Len(EditsAt("phase1")) :
         LET text == EditsAt("phase1")[i].text
         IN /\ Contains(text, LOADING_MODS)
            /\ \A m \in ModTexts : \A k \in 1..2 :
                 Truthy(m[k]) => ~Contains(text, ModBlock(m[k]))
    /\ \A i \in 1..Len(EditsAt("phase2")) :
         LET text == EditsAt("phase2")[i].text
         IN /\ ~Contains(text, LOADING_MODS)
            /\ (Truthy(full_item.implicit_mods) /\ Truthy(full_item.explicit_mods)) =>
                 Contains(text, ModBlock(full_item.implicit_mods) \o NLNL
                                    \o ModBlock(full_item.explicit_mods))

\* C2, amended: the Phase 1 edit text never holds a mod block and holds the
\* trailer whenever the content was not truncated; the Phase 2 edit text
\* never holds the trailer and, for an item with both mods resolved, holds
\* both mod blocks whenever the content was not truncated.
C2_TwoPhaseReveal ==
    /\ \A i \in 1..Len(EditsAt("phase1")) :
         LET text == EditsAt("phase1")[i].text
         IN /\ item.implicit_mods = None /\ item.explicit_mods = None
            /\ \A m \in ModTexts : \A k \in 1..2 :
                 Truthy(m[k]) => ~Contains(text, ModBlock(m[k]))
            /\ Untruncated(text) => Contains(text, LOADING_MODS)
    /\ \A i \in 1..Len(EditsAt("phase2")) :
         LET text == EditsAt("phase2")[i].text
         IN /\ ~Contains(text, LOADING_MODS)
            /\ (/\ Truthy(full_item.implicit_mods)
                /\ Truthy(full_item.explicit_mods)
                /\ Untruncated(text)) =>
                 Contains(text, ModBlock(full_item.implicit_mods) \o NLNL
                                    \o ModBlock(full_item.explicit_mods))

C2_Witness ==
    /\ pc = "done"
    /\ Truthy(full_item.implicit_mods) /\ Truthy(full_item.explicit_mods)
    /\ Len(EditsAt("phase1")) = 1 /\ Len(EditsAt("phase2")) = 1
    /\ Untruncated(EditsAt("phase1")[1].text)
    /\ Untruncated(EditsAt("phase2")[1].text)
    /\ Contains(EditsAt("phase1")[1].text, LOADING_MODS)
    /\ Contains(EditsAt("phase2")[1].text, <<"E","x","p","l","i","c","i","t"," ","m","o","d"," ","1">> \o NL \o <<"E","x","p","l","i","c","i","t"," ","m","o","d"," ","2">>)

\* The entities html.escape and the markup put in a text.
Entities == {<<"&","a","m","p",";">>, <<"&","l","t",";">>, <<"&","g","t",";">>, <<"&","q","u","o","t",";">>, <<"&","#","x","2","7",";">>, <<"&","#","8","2","0","5",";">>}

\* No raw apostrophe and no raw ampersand: every "&" starts an entity.
WellEscaped(text) ==
    \A i \in 1..Len(text) :
        /\ text[i] # "'"
        /\ text[i] = "&" =>
             \E ent \in Entities :
                 i + Len(ent) - 1 <= Len(text) /\ SubSeq(text, i, i + Len(ent) - 1) = ent

\* The physical damage values of the record carry no character to escape
\* (format_content interpolates them as they are).
PhysicalDamageClean(it) ==
    \A i \in 1..Len(it.stats) :
        it.stats[i][1] \in {K_pd_range_text, K_pd_min, K_pd_max, K_pd}
            => html_escape(it.stats[i][2]) = it.stats[i][2]

FormatMapKeys == {format_map[i].key : i \in 1..Len(format_map)}

\* The values format_content renders with a generic label.
GenericValues(it) ==
    {it.stats[i][2] : i \in {j \in 1..Len(it.stats) :
        /\ it.stats[j][1] \notin FormatMapKeys
        /\ it.stats[j][1] \notin {K_pd_range_text, K_pd_min, K_pd_max, K_pd}
        /\ GenericShown(it.stats[j][1], it.stats[j][2])}}

\* An HTML text that shows the record: its name, flavour text and generic
\* stat values are there in escaped form, and nothing is raw.
ShowsEscaped(text, it) ==
    /\ Contains(text, html_escape(it.name))
    /\ Truthy(it.flavour_text) => Contains(text, html_escape(it.flavour_text))
    /\ Truthy(it.implicit_mods) => Contains(text, ModBlock(it.implicit_mods))
    /\ Truthy(it.explicit_mods) => Contains(text, ModBlock(it.explicit_mods))
    /\ \A v \in GenericValues(it) : Contains(text, html_escape(v))
    /\ PhysicalDamageClean(it) => WellEscaped(text)

CutOf(text, raw) ==
    IF Len(raw) > ContentBudget
    THEN /\ Len(text) = ContentBudget + 3
         /\ \A k \in 1..ContentBudget : text[k] = raw[k]
         /\ SubSeq(text, ContentBudget + 1, ContentBudget + 3) = <<".",".",".">>
    ELSE text = raw

\* C9: the text of the Phase 1 edit, of the Phase 2 edit and of the Phase 2
\* plain-text fallback is at most ContentBudget + 3 characters long, within
\* the 4096-character ceiling; content longer than ContentBudget is cut to
\* its first ContentBudget characters followed by "...".
C9_Budget ==
    /\ \A i \in 1..Len(Edits) :
         Edits[i].site \in {"phase1", "phase2", "phase2_plain"} =>
            /\ Len(Edits[i].text) <= ContentBudget + 3
            /\ Len(Edits[i].text) <= MessageCeiling
    /\ \A i \in 1..Len(EditsAt("phase2_plain")) :
         Len(EditsAt("phase2_plain")[i].text) <= ContentBudget
    /\ \A i \in 1..Len(EditsAt("phase1")) :
         CutOf(EditsAt("phase1")[i].text, format_content(item, TRUE, WikiUrl(item.name)))
    /\ \A i \in 1..Len(EditsAt("phase2")) :
         CutOf(EditsAt("phase2")[i].text, format_content(full_item, FALSE, WikiUrl(item.name)))

C9_Witness ==
    /\ pc = "done"
    /\ Len(EditsAt("phase1")) = 1 /\ Len(EditsAt("phase2")) = 1
    /\ Len(EditsAt("phase2_plain")) = 1
    /\ Len(format_content(item, TRUE, WikiUrl(item.name))) = ContentBudget + 1
    /\ Len(EditsAt("phase1")[1].text) = ContentBudget + 3
    /\ Len(format_content(full_item, FALSE, WikiUrl(item.name))) <= ContentBudget

(***************************************************************************)
(* Properties of get_mods_fallback (SpecFallback)                          *)
(***************************************************************************)

\* The strings get_mods_fallback returned, each with the mods row it was
\* rendered from.
Returned ==
    [i \in 1..Len(fallback_mods.implicit) |->
        [text |-> fallback_mods.implicit[i], origin |-> fallback_mods.implicit_from[i]]]
    \o [i \in 1..Len(fallback_mods.explicit) |->
        [text |-> fallback_mods.explicit[i], origin |-> fallback_mods.explicit_from[i]]]

\* The mods rows whose template is flagged hidden.
HiddenRows == {i \in 1..Len(mods.rows) : Truthy(mods.rows[i].stat_text)
                                         /\ Contains(mods.rows[i].stat_text, Hidden)}

\* C5: no string of the implicit or explicit list returned by
\* get_mods_fallback is rendered from a mods row whose template contains
\* "(Hidden)", whatever the flags and the observations of that mod; the lists
\* show no hidden marker.
C5_HiddenExcluded ==
    fb_pc = "returned" =>
        \A k \in 1..Len(Returned) :
            /\ ~Contains(Returned[k].origin.template, Hidden)
            /\ ~Contains(Returned[k].text, Hidden)
            /\ \A i \in HiddenRows :
                 Returned[k].origin # [mod_id |-> mods.rows[i].id,
                                       template |-> mods.rows[i].stat_text]

\* A hidden mod that is flagged implicit or explicit and has observations is
\* left out while another mod of the same item is returned.
C5_Witness ==
    /\ fb_pc = "returned"
    /\ item_stats.ok
    /\ \E i \in HiddenRows :
         /\ HasKey(ModInfoMap(item_mods.rows, <<>>), mods.rows[i].id)
         /\ LET info == GetKey(ModInfoMap(item_mods.rows, <<>>), mods.rows[i].id)
            IN info.is_implicit \/ info.is_explicit
         /\ \E j \in 1..Len(item_stats.rows) : item_stats.rows[j].mod_id = mods.rows[i].id
    /\ Len(Returned) = 1

\* The observations of a mod, in the order of the item_stats rows.
ObservationsOf(mod_id) ==
    IF item_stats.ok
    THEN SelectSeq(item_stats.rows, LAMBDA s : s.mod_id = mod_id)
    ELSE <<>>

\* Every observation has a value, and min equals max.
AllFixed(obs) ==
    /\ obs # <<>>
    /\ \A j \in 1..Len(obs) : Truthy(obs[j].min) /\ obs[j].min = obs[j].max

\* The length of the number (digits, then optionally a point and digits)
\* that starts at i.
NumberRun(s, i) ==
    LET a == DigitRun(s, i)
        point == i + a
        b == IF a > 0 /\ point <= Len(s) /\ s[point] = "." THEN DigitRun(s, point + 1) ELSE 0
    IN IF b > 0 THEN a + 1 + b ELSE a

\* A bracketed range token "(number-number)" starts at i.
RangeTokenAt(s, i) ==
    /\ i <= Len(s) /\ s[i] = "("
    /\ LET a == NumberRun(s, i + 1)
           dash == i + 1 + a
       IN /\ a > 0 /\ dash <= Len(s) /\ s[dash] = "-"
          /\ LET b == NumberRun(s, dash + 1)
                 close == dash + 1 + b
             IN b > 0 /\ close <= Len(s) /\ s[close] = ")"

HasRangeToken(s) == \E i \in 1..Len(s) : RangeTokenAt(s, i)

\* C6: a string returned by get_mods_fallback for a mod whose observations
\* all have min equal to max holds no bracketed range token and no bare "#",
\* and holds the value wherever its template held one of them.
C6_Original ==
    fb_pc = "returned" =>
        \A k \in 1..Len(Returned) :
            LET template == Returned[k].origin.template
                obs == ObservationsOf(Returned[k].origin.mod_id)
            IN (AllFixed(obs) /\ (HasRangeToken(template) \/ Contains(template, <<"#">>))) =>
                 /\ ~HasRangeToken(Returned[k].text)
                 /\ ~Contains(Returned[k].text, <<"#">>)
                 /\ Contains(Returned[k].text, obs[1].min)

(***************************************************************************)
(* Properties of the resolver (SpecApi)                                    *)
(***************************************************************************)

\* The requests populate_item_details and get_mods_fallback send.
EnrichmentKinds ==
    {"mods", "item_mods", "fallback_mods", "item_stats", "metadata", "sup_batch", "sup_field"}

Enrichment == SelectSeq(queries, LAMBDA q : q.kind \in EnrichmentKinds)

\* The search answered, and a row of its answer has a name that contains
\* the name asked for, ignoring case.
SomeRowMatches ==
    \E i \in 1..Len(data.rows) :
        Contains(Lower(OrUnknown(data.rows[i].name)), Lower(call.name))

\* C3: when the search of get_item_details answers without a row that
\* matches the name, the call returns None, does not raise, and sends no
\* enrichment request.
C3_NoMatchIsNone ==
    (call.fn = "get_item_details" /\ data.ok /\ ~SomeRowMatches) =>
        /\ Enrichment = <<>>
        /\ api_pc \in {"images", "done"}
        /\ api_pc = "done" => returned = "None"

\* A search that answered with a row of another name ended in None.
C3_Witness ==
    /\ call.fn = "get_item_details" /\ data.ok /\ ~SomeRowMatches
    /\ data.rows # <<>>
    /\ api_pc = "done" /\ returned = "None"

\* The record populate_item_details works on, once the mods are stored.
ModsStored == call.include_mods /\ api_pc \in {"metadata", "sup_batch", "sup_field"}

\* The merge rule for one side: primary is what the primary path left,
\* fallback the list of get_mods_fallback, stored the record's mod text.
MergeRule(primary, fallback, stored) ==
    /\ Truthy(primary) => stored = primary
    /\ (~Truthy(primary) /\ fallback # <<>>) => stored = Join(<<"<","b","r",">">>, fallback)

\* C4: with include_mods=True, each side of the record holds the value of
\* the primary path when that value is not empty, whatever the fallback
\* returned, and otherwise the strings of a non-empty fallback list, in
\* order, joined with "<br>".
C4_MergeRule ==
    ModsStored =>
        /\ MergeRule(primary_mods.implicit, fallback_mods.implicit, items[cur].implicit_mods)
        /\ MergeRule(primary_mods.explicit, fallback_mods.explicit, items[cur].explicit_mods)

\* The implicit side came from the primary path although the fallback had an
\* implicit list, and the explicit side is two fallback strings joined.
C4_Witness ==
    /\ ModsStored
    /\ Truthy(primary_mods.implicit) /\ fallback_mods.implicit # <<>>
    /\ items[cur].implicit_mods = primary_mods.implicit
    /\ ~Truthy(primary_mods.explicit) /\ Len(fallback_mods.explicit) = 2
    /\ items[cur].explicit_mods =
          fallback_mods.explicit[1] \o <<"<","b","r",">">> \o fallback_mods.explicit[2]

Supplementary == SelectSeq(queries, LAMBDA q : q.kind \in {"sup_batch", "sup_field"})

\* f is an identity field, or its name contains an excluded pattern.
IsExcluded(f) ==
    \/ \E i \in 1..Len(IdentityFields) : f = IdentityFields[i]
    \/ \E p \in 1..Len(ExcludedPatterns) :
          Contains(f, ExcludedPatterns[p]) \/ Contains(Lower(f), ExcludedPatterns[p])

\* C7: no batched and no per-field supplementary request asks for an
\* identity field or for a field whose name contains "_min", "_max",
\* "average", "color" or "colour".
C7_ExcludedNeverAsked ==
    \A k \in 1..Len(Supplementary) :
        \A i \in 1..Len(Supplementary[k].fields) : ~IsExcluded(Supplementary[k].fields[i])

\* A table with excluded fields was asked for in a batch and then field by
\* field.
C7_Witness ==
    /\ \E k \in 1..Len(Supplementary) :
         /\ Supplementary[k].kind = "sup_batch"
         /\ \E i \in 1..Len(get_fields_for_table(Supplementary[k].tables)) :
              IsExcluded(get_fields_for_table(Supplementary[k].tables)[i])
    /\ \E k \in 1..Len(Supplementary) : Supplementary[k].kind = "sup_field"

\* C10: query_items with detailed=False, when the search answers, returns
\* one record per row, in the order of the rows, with the row's name, rarity
\* and class and the URL of its icon, empty stats and no required level,
\* flavour text, description or mods, and sends no enrichment request.
C10_Unenriched ==
    (call.fn = "query_items" /\ ~call.detailed /\ data.ok) =>
        /\ Enrichment = <<>>
        /\ api_pc \in {"images", "done"}
        /\ api_pc = "done" =>
             /\ returned = "list"
             /\ Len(items) = Len(data.rows)
             /\ \A i \in 1..Len(items) :
                  /\ items[i].name = OrUnknown(data.rows[i].name)
                  /\ items[i].rarity = OrUnknown(data.rows[i].rarity)
                  /\ items[i].item_class = OrUnknown(data.rows[i].class)
                  /\ items[i].image_url = UrlOf(image_urls, data.rows[i].inventory_icon)
                  /\ items[i].stats = <<>>
                  /\ items[i].required_level = None
                  /\ items[i].flavour_text = None
                  /\ items[i].description = None
                  /\ items[i].implicit_mods = None
                  /\ items[i].explicit_mods = None

\* Two rows came back as two records, one of them with its image URL.
C10_Witness ==
    /\ call.fn = "query_items" /\ ~call.detailed /\ data.ok
    /\ api_pc = "done" /\ returned = "list"
    /\ Len(items) = 2
    /\ items[1].name # items[2].name
    /\ \E i \in 1..2 : items[i].image_url # None

(***************************************************************************)
(* The message an edit is addressed to                                     *)
(***************************************************************************)

\* The message reference of the update a resolution was triggered by.
RefOfUpdate ==
    CASE update.kind = "chosen_inline_result" ->
            [inline_message_id |-> update.inline_message_id,
             chat_id |-> None, message_id |-> None]
      [] update.kind = "message" ->
            [inline_message_id |-> None,
             chat_id |-> update.chat_id, message_id |-> update.message_id]
      [] update.kind = "callback_query" ->
            [inline_message_id |-> update.inline_message_id,
             chat_id |-> update.chat_id, message_id |-> update.message_id]
      [] OTHER -> [inline_message_id |-> None, chat_id |-> None, message_id |-> None]

\* C11: every edit of a resolution is addressed to the message of the update
\* that triggered it (the inline message id of a chosen result, the chat and
\* message ids of a message, whichever of them a callback query has), and a
\* chosen result without an inline message id starts no lookup and no edit.
C11_MessageReference ==
    /\ \A i \in 1..Len(log) : log[i].kind = "edit" => log[i].ref = RefOfUpdate
    /\ (update.kind = "chosen_inline_result" /\ ~Truthy(update.inline_message_id))
          => log = <<>>

\* A message in a chat was resolved through both phases, each edit addressed
\* to it.
C11_Witness ==
    /\ pc = "done"
    /\ update.kind = "message"
    /\ Len(Edits) >= 2
    /\ \A i \in 1..Len(Edits) : Edits[i].ref = ChatRef

(***************************************************************************)
(* The callback query                                                      *)
(***************************************************************************)

\* C12: on_callback_query answers the query exactly once, and has done so in
\* every state reached after it was called, hence before any lookup or edit;
\* when the callback data is empty or does not start with "resolve|" no lookup
\* and no edit follows.
C12_AnsweredFirst ==
    /\ answers <= 1
    /\ update.kind = "callback_query" => answers = 1
    /\ (/\ update.kind = "callback_query"
        /\ (~Truthy(update.data) \/ ~StartsWith(update.data, <<"r","e","s","o","l","v","e","|">>)))
          => (log = <<>> /\ pc \in {"callback", "handler_raised", "done"})

\* A button press with "resolve|Starforge" was answered and then resolved.
C12_Witness ==
    /\ update.kind = "callback_query"
    /\ StartsWith(update.data, <<"r","e","s","o","l","v","e","|">>)
    /\ answers = 1
    /\ pc = "done"
    /\ Len(Edits) >= 2

(***************************************************************************)
(* Rejected edits                                                          *)
(***************************************************************************)

\* The edit logged at position i was rejected with "Message is not modified".
Unchanged(i) ==
    /\ log[i].kind = "edit"
    /\ Contains(log[i].outcome, <<"M","e","s","s","a","g","e"," ","i","s"," ","n","o","t"," ","m","o","d","i","f","i","e","d">>)

\* C13: an edit of Phase 1 or Phase 2 rejected with "Message is not modified"
\* counts as delivered: after the Phase 1 edit the next call is the Phase 2
\* lookup, and the Phase 2 edit is the last call of the resolution; no
\* plain-text re-send and no error notice follows either.
C13_UnchangedIsSuccess ==
    \A i \in 1..Len(log) :
        /\ (Unchanged(i) /\ log[i].site = "phase1") =>
              IF i = Len(log) THEN pc = "phase2_lookup"
              ELSE log[i + 1].kind = "lookup" /\ log[i + 1].include_mods
        /\ (Unchanged(i) /\ log[i].site = "phase2") => (i = Len(log) /\ pc = "done")

\* Both edits of a resolution were rejected as unchanged.
C13_Witness ==
    /\ pc = "done"
    /\ Len(log) = 4
    /\ Unchanged(2) /\ log[2].site = "phase1"
    /\ Unchanged(4) /\ log[4].site = "phase2"

(***************************************************************************)
(* What leaves resolve_item_details                                        *)
(***************************************************************************)

\* The last call logged is an edit at one of the sites, and it failed.
LastEditFailedAt(sites) ==
    /\ log # <<>>
    /\ log[Len(log)].kind = "edit"
    /\ log[Len(log)].site \in sites
    /\ log[Len(log)].outcome # Delivered

\* C16: resolve_item_details never ends with an exception: whatever
\* get_item_details and the edits raise, no step leaves it raising, and after
\* a failed notice edit (of the not-found branch or of the outer except) or a
\* failed last plain-text edit the function has returned.
C16_NeverPropagates ==
    /\ pc # "raised"
    /\ LastEditFailedAt({"error", "not_found", "phase2_plain"}) => pc = "done"
    /\ LastEditFailedAt({"phase1_plain"}) => pc = "phase2_lookup"

\* A lookup raised after Phase 1 had been shown, and the error notice could
\* not be delivered either.
C16_Witness ==
    /\ pc = "done"
    /\ LastEditFailedAt({"error"})
    /\ Len(Lookups) = 2

\* The edit of Phase 1 or Phase 2 logged at position i was rejected.
PhaseEditRejected(i) ==
    /\ log[i].kind = "edit"
    /\ log[i].site \in {"phase1", "phase2"}
    /\ log[i].outcome # Delivered

\* The channel's rejection of markup it cannot parse.
MarkupRejected(i) ==
    PhaseEditRejected(i) /\ Contains(Lower(log[i].outcome), <<"c","a","n","'","t"," ","p","a","r","s","e"," ","e","n","t","i","t","i","e","s">>)

\* The call logged at position i is an edit sent as plain text.
PlainResend(i) == log[i].kind = "edit" /\ log[i].parse_mode = "None"

\* C19 as stated: after a markup rejection of a phase's edit the next call is
\* one plain-text edit whose text is that phase's content with the markup
\* stripped, and after any other rejection the next call is no plain-text
\* edit.
C19_Original ==
    \A i \in 1..(Len(log) - 1) :
        /\ MarkupRejected(i) =>
              /\ PlainResend(i + 1)
              /\ log[i + 1].text = Prefix(PlainContent(log[i].text), ContentBudget)
              /\ (i + 2 <= Len(log) => ~PlainResend(i + 2))
        /\ (PhaseEditRejected(i) /\ ~MarkupRejected(i)) => ~PlainResend(i + 1)

\* The notice edits: "Details could not be resolved." and "(Error loading
\* full details)".
IsNotice(i) == log[i].kind = "edit" /\ log[i].site \in {"not_found", "error"}

\* C20 as stated: when the edit of Phase 1 or Phase 2 was rejected for a
\* reason that is neither "not modified" nor one the code takes for a markup
\* rejection, a notice edit has been attempted by the end of the resolution.
C20_Original ==
    \A i \in 1..Len(log) :
        (/\ PhaseEditRejected(i)
         /\ ~Unchanged(i)
         /\ ~IsMarkupRejection(log[i].outcome)
         /\ pc = "done")
          => \E j \in (i + 1)..Len(log) : IsNotice(j)

(***************************************************************************)
(* Failures and error envelopes in the resolver (SpecApi)                  *)
(***************************************************************************)

\* The kind of the request the step just taken has sent last.
Asked == queries'[Len(queries')].kind

\* The step sent a request and got r-like answer to the last one.
Answered == queries' # queries

\* What an answer without rows leaves behind, by the kind of the request:
\* the search ends with an empty list (None for get_item_details), the
\* primary mod query goes on to the next spelling or to the fallback with the
\* locals as they were, the metadata and supplementary queries leave the
\* record as it was, the fallback's item_mods and mods queries give no mods
\* (the record gets the primary values), its item_stats query substitutes
\* nothing.
AsEmpty ==
    CASE Asked = "search" ->
            /\ returned' = IF call.fn = "query_items" THEN "list" ELSE "None"
            /\ items' = <<>>
      [] Asked = "mods" ->
            /\ implicit' = implicit /\ explicit' = explicit
            /\ (api_pc' = "primary" /\ pos' > pos) \/ api_pc' = "fallback"
      [] Asked \in {"metadata", "sup_batch", "sup_field"} -> items' = items
      [] Asked \in {"item_mods", "fallback_mods"} ->
            /\ fallback_mods' = NoMods
            /\ items'[cur].implicit_mods = implicit
            /\ items'[cur].explicit_mods = explicit
      [] Asked = "item_stats" ->
            fallback_mods' = get_mods_fallback(item_mods', mods', Rows(<<>>))
      [] OTHER -> TRUE

\* C14 as stated: a cargo response that carries an "error" member or is a
\* malformed envelope is handled as an empty result set, by every request.
C14_Original ==
    [][(Answered /\ (response'.error \/ response'.malformed)) => AsEmpty]_vars

\* What a request that raised leaves behind, by its kind: only the search
\* ends the call; after any other the fields it would have set are as they
\* were and the call stands where an answer without rows would have put it.
AfterFailure ==
    CASE Asked = "search" -> returned' = "raise"
      [] Asked = "images" ->
            /\ image_urls' = image_urls
            /\ \/ api_pc' = "images" /\ pos' = pos + ChunkSize
               \/ /\ items' = BuildItems(raw_results, image_urls)
                  /\ api_pc' = AfterBuild(call, items').pc
                  /\ returned' = AfterBuild(call, items').returned
      [] Asked = "mods" ->
            /\ implicit' = implicit /\ explicit' = explicit
            /\ (api_pc' = "primary" /\ pos' > pos) \/ api_pc' = "fallback"
      [] Asked \in {"item_mods", "fallback_mods"} ->
            /\ fallback_mods' = NoMods
            /\ items'[cur].implicit_mods = implicit
            /\ items'[cur].explicit_mods = explicit
            /\ api_pc' = "metadata"
      [] Asked = "item_stats" ->
            /\ fallback_mods' = get_mods_fallback(item_mods', mods', Rows(<<>>))
            /\ api_pc' = "metadata"
      [] Asked = "metadata" ->
            /\ items' = items
            /\ api_pc' = AfterMetadata(call, items, cur).pc
      [] Asked = "sup_batch" ->
            /\ items' = items
            /\ api_pc' = "sup_field" /\ pos' = 1
      [] Asked = "sup_field" ->
            /\ items' = items
            /\ \/ api_pc' = "sup_field" /\ pos' = pos + 1
               \/ api_pc' = AfterPopulate(call, items, cur).pc
      [] OTHER -> FALSE

\* C15: a call ends with an exception only when its search request failed;
\* a failure of an image, mod, fallback, metadata or supplementary request
\* leaves the fields of that request as they were, the call goes on with its
\* next step, and once a record is being populated the call ends by
\* returning it.
C15_OnlySearchPropagates ==
    [][/\ returned' = "raise" =>
            (Len(queries') = 1 /\ queries'[1].kind = "search" /\ ~data'.ok)
       /\ returned' = "None" =>
            \A i \in 1..Len(queries') : queries'[i].kind \in {"search", "images"}
       /\ (Answered /\ response' = Raised) =>
            (AfterFailure /\ (Asked # "search" => returned' # "raise"))]_vars

\* The record was returned although the batched supplementary request and
\* the last per-field request failed.
C15_Witness ==
    /\ returned = "item"
    /\ response = Raised
    /\ queries[Len(queries)].kind = "sup_field"
    /\ \E i \in 1..Len(queries) : queries[i].kind = "sup_batch"

(***************************************************************************)
(* Properties of validate_field (SpecValidate)                             *)
(***************************************************************************)

\* The field is listed for the table in the catalog.
Listed(table, field) == In(field, get_fields_for_table(table))

\* The spelling of a field with underscores, and with spaces.
Underscored(field) == Replace(field, <<" ">>, <<"_">>)
Spaced(field) == Replace(field, <<"_">>, <<" ">>)

\* The call has returned v.
ValidateReturned(v) == validation.returned = (IF v THEN "True" ELSE "False")

\* What validate_field returns: true when the catalog is empty; otherwise
\* true exactly when the field, as given or with its spaces replaced by
\* underscores, is listed for the table.
ValidateRule ==
    /\ CARGO_MAPPING = <<>> => ValidateReturned(TRUE)
    /\ CARGO_MAPPING # <<>> =>
          ValidateReturned(\/ Listed(validation.table, validation.field)
                           \/ Listed(validation.table, Underscored(validation.field)))

\* C17 as stated: the rule, and with a loaded catalog the space spelling and
\* the underscore spelling of every field listed for the table are valid.
C17_Original ==
    validation.returned # "" =>
        /\ ValidateRule
        /\ \A c \in ValidatedFields :
              (/\ CARGO_MAPPING # <<>>
               /\ Listed(validation.table, c)
               /\ validation.field \in {Spaced(c), Underscored(c)})
                => ValidateReturned(TRUE)

\* C17: the rule, and with a loaded catalog the space spelling and the
\* underscore spelling of every field that is listed for the table with
\* underscores (without a space) are valid.
C17_ValidateField ==
    validation.returned # "" =>
        /\ ValidateRule
        /\ \A c \in ValidatedFields :
              (/\ CARGO_MAPPING # <<>>
               /\ Listed(validation.table, c)
               /\ c = Underscored(c)
               /\ validation.field \in {Spaced(c), Underscored(c)})
                => ValidateReturned(TRUE)

\* With a loaded catalog the space spelling of a field listed with
\* underscores was found valid.
C17_Witness ==
    /\ CARGO_MAPPING # <<>>
    /\ validation.returned = "True"
    /\ validation.field # Underscored(validation.field)
    /\ ~Listed(validation.table, validation.field)
    /\ Listed(validation.table, Underscored(validation.field))

(***************************************************************************)
(* Properties of concurrent resolutions (SpecConc)                         *)
(***************************************************************************)

\* The object is touched by the resolution that created it only.
Private(object) ==
    /\ object.written_by \subseteq {object.created_by}
    /\ object.read_by \subseteq {object.created_by}

\* C18: under every interleaving of the steps of concurrent resolutions, each
\* Item object is written and read only by the resolution that created it,
\* an object never changes its creator, and no step writes the field
\* catalog.
C18_NothingShared ==
    [][/\ \A i \in 1..Len(heap') : Private(heap'[i])
       /\ \A i \in 1..Len(heap) : heap'[i].created_by = heap[i].created_by
       /\ CARGO_MAPPING' = CARGO_MAPPING]_vars

\* Both resolutions ran to their end at the same time, each on an object of
\* its own that it enriched and rendered.
C18_Witness ==
    /\ \A r \in Resolutions : resolutions[r].pc = "done" /\ resolutions[r].target_item # 0
    /\ resolutions[1].target_item # resolutions[2].target_item
    /\ \A r \in Resolutions :
          /\ heap[resolutions[r].target_item].written_by = {r}
          /\ heap[resolutions[r].target_item].read_by = {r}
    /\ heap[1].created_by = 2

(***************************************************************************)
(* Properties of get_image_urls (SpecImages)                               *)
(***************************************************************************)

\* The requests to the image endpoint so far, in order.
Batches == SelectSeq(queries, LAMBDA q : q.kind = "images")

RECURSIVE Concat(_)
Concat(chunks) == IF chunks = <<>> THEN <<>> ELSE Head(chunks).fields \o Concat(Tail(chunks))

\* The batches sent so far are consecutive slices of at most 50 file names.
BatchesCover(batches, file_names) ==
    /\ \A i \in 1..Len(batches) :
         /\ Len(batches[i].fields) \in 1..ChunkSize
         /\ i < Len(batches) => Len(batches[i].fields) = ChunkSize
    /\ Concat(batches) = Prefix(file_names, Len(Concat(batches)))

Fetched(key) ==
    IF response'.ok /\ response'.rows # <<>> THEN response'.rows[1][key] ELSE None

\* C22: after the metadata step each of required level, flavour text and
\* description is the fetched value when that value is non-empty, and the
\* value the record held before the step otherwise; a failed or empty fetch
\* changes none of the three.
C22_MetadataKeeps ==
    [][(Answered /\ Asked = "metadata") =>
         /\ items'[cur].required_level =
              (IF Truthy(Fetched("required_level")) THEN Fetched("required_level")
               ELSE items[cur].required_level)
         /\ items'[cur].flavour_text =
              (IF Truthy(Fetched("flavour_text")) THEN Fetched("flavour_text")
               ELSE items[cur].flavour_text)
         /\ items'[cur].description =
              (IF Truthy(Fetched("description")) THEN Fetched("description")
               ELSE items[cur].description)
         /\ (~response'.ok \/ response'.rows = <<>>) =>
              /\ items'[cur].required_level = items[cur].required_level
              /\ items'[cur].flavour_text = items[cur].flavour_text
              /\ items'[cur].description = items[cur].description]_vars

\* The metadata of a record that held a required level and a flavour text
\* was fetched with a description and nothing else: the record has all three.
C22_Witness ==
    /\ call = PopulateItemDetails(AtzirisPromise)
    /\ Len(queries) = 1
    /\ response = Rows(<<MetaRow(<<>>, None, <<"R","i","g","h","t"," ","c","l","i","c","k"," ","t","o"," ","d","r","i","n","k",".">>)>>)
    /\ items[1].required_level = AtzirisPromise.required_level
    /\ items[1].flavour_text = AtzirisPromise.flavour_text
    /\ items[1].description = <<"R","i","g","h","t"," ","c","l","i","c","k"," ","t","o"," ","d","r","i","n","k",".">>

\* sup_item.get(f.replace("_", " ")) for the row the last request answered
\* with: None when there is no row or no such key.
ReturnedValue(f) ==
    IF response'.ok /\ response'.rows # <<>> /\ HasKey(response'.rows[1], Spaced(f))
    THEN GetKey(response'.rows[1], Spaced(f))
    ELSE None

\* item.stats.get(key)
Stat(stats, key) == IF HasKey(stats, key) THEN GetKey(stats, key) ELSE None

\* The valid fields of the supplementary table of the record at work.
ValidFieldsOf(its, i) == ValidFields(get_table_for_class(its[i].item_class))

\* C23: for a record whose class has a supplementary table with a valid
\* field, populate_item_details sends one batched query for all valid
\* fields; if that request fails it sends one query per valid field, a
\* failing per-field query touches no other field, and every non-empty value
\* returned is stored under the field name with its spaces replaced by
\* underscores, so no key the step stores contains a space.
C23_Supplementary ==
    [][/\ (Answered /\ Asked = "sup_batch") =>
            /\ Supplementary = <<>>
            /\ ValidFieldsOf(items, cur) # <<>>
            /\ queries'[Len(queries')].fields = ValidFieldsOf(items, cur)
            /\ IF response'.ok
               THEN /\ returned' = "item"
                    /\ \A k \in 1..Len(ValidFieldsOf(items, cur)) :
                         LET f == ValidFieldsOf(items, cur)[k] IN
                         IF Truthy(ReturnedValue(f))
                         THEN Stat(items'[1].stats, Underscored(f)) = ReturnedValue(f)
                         ELSE Stat(items'[1].stats, Underscored(f))
                                  = Stat(items[1].stats, Underscored(f))
               ELSE api_pc' = "sup_field" /\ pos' = 1 /\ items' = items
       /\ (Answered /\ Asked = "sup_field") =>
            /\ queries'[Len(queries')].fields = <<ValidFieldsOf(items, cur)[pos]>>
            /\ \A k \in 1..Len(ValidFieldsOf(items, cur)) :
                 LET f == ValidFieldsOf(items, cur)[k] IN
                 IF k = pos /\ Truthy(ReturnedValue(f))
                 THEN Stat(items'[1].stats, Underscored(f)) = ReturnedValue(f)
                 ELSE Stat(items'[1].stats, Underscored(f)) = Stat(items[1].stats, Underscored(f))
            /\ IF pos < Len(ValidFieldsOf(items, cur))
               THEN api_pc' = "sup_field" /\ pos' = pos + 1
               ELSE returned' = "item"
       /\ returned' = "item" =>
            /\ ValidFieldsOf(items', 1) # <<>> =>
                 Len(SelectSeq(queries', LAMBDA q : q.kind = "sup_batch")) = 1
            /\ Len(SelectSeq(queries', LAMBDA q : q.kind = "sup_field"))
                 \in {0, Len(ValidFieldsOf(items', 1))}
       /\ \A k \in 1..Len(items'[1].stats) :
            \/ ~Contains(items'[1].stats[k][1], <<" ">>)
            \/ Stat(items[1].stats, items'[1].stats[k][1]) = items'[1].stats[k][2]]_vars

\* The batched query of a weapon failed, the query for the first field
\* failed too, and the query for 'weapon range' stored its value under
\* 'weapon_range'.
C23_Witness ==
    /\ returned = "item"
    /\ call = PopulateItemDetails(Basic(Starforge))
    /\ Len(Supplementary) = 3
    /\ Supplementary[2].fields = <<<<"p","h","y","s","i","c","a","l","_","d","a","m","a","g","e","_","r","a","n","g","e","_","t","e","x","t">>>>
    /\ Supplementary[3].fields = <<<<"w","e","a","p","o","n"," ","r","a","n","g","e">>>>
    /\ items[1].stats = << <<<<"w","e","a","p","o","n","_","r","a","n","g","e">>, SupValue(<<"w","e","a","p","o","n"," ","r","a","n","g","e">>)>> >>

(***************************************************************************)
(* The record get_item_details works on (SpecApi)                          *)
(***************************************************************************)

ExactAt(i) == Lower(items[i].name) = Lower(call.name)
ContainsAt(i) == Contains(Lower(items[i].name), Lower(call.name))

\* Record i is the one the rule selects: the first exact match, or with no
\* exact match the first record that contains the name.
SelectedAt(i) ==
    \/ ExactAt(i) /\ \A j \in 1..(i - 1) : ~ExactAt(j)
    \/ /\ \A j \in 1..Len(items) : ~ExactAt(j)
       /\ ContainsAt(i) /\ \A j \in 1..(i - 1) : ~ContainsAt(j)

\* A record as query_items built it.
Untouched(i) ==
    /\ items[i].stats = <<>>
    /\ items[i].required_level = None
    /\ items[i].flavour_text = None
    /\ items[i].description = None
    /\ items[i].implicit_mods = None
    /\ items[i].explicit_mods = None

\* C24: get_item_details selects the first record whose name is the name
\* asked for ignoring case, else the first whose name contains it; it runs
\* populate_item_details at most once and only on that record, and returns
\* that record.
C24_BestMatch ==
    call.fn = "get_item_details" =>
        /\ cur # 0 => SelectedAt(cur)
        /\ \A i \in 1..Len(items) : i # cur => Untouched(i)
        /\ Enrichment # <<>> => cur # 0
        /\ Len(SelectSeq(queries, LAMBDA q : q.kind = "metadata")) <= 1
        /\ Len(SelectSeq(queries, LAMBDA q : q.kind = "sup_batch")) <= 1
        /\ Len(SelectSeq(queries, LAMBDA q : q.kind = "item_mods")) <= 1
        /\ \A k \in 1..Len(Enrichment) :
             Enrichment[k].where \in {<<>>, WhereName(items[cur].name), WherePage(items[cur].name)}
        /\ returned = "item" =>
             /\ cur # 0
             /\ Len(SelectSeq(queries, LAMBDA q : q.kind = "metadata")) = 1
        /\ (api_pc = "done" /\ returned = "None" /\ data.ok /\ ~data.error) =>
             \A i \in 1..Len(items) : ~SelectedAt(i)

\* Of two records the second was the exact match: it was populated and
\* returned, the first was left as built.
C24_Witness ==
    /\ call.fn = "get_item_details"
    /\ returned = "item"
    /\ Len(items) = 2
    /\ cur = 2
    /\ ContainsAt(1) /\ ~ExactAt(1) /\ ExactAt(2)
    /\ items[2].required_level # None
    /\ Untouched(1)

(***************************************************************************)
(* Properties of the stat lines of format_content (SpecFormat)             *)
(***************************************************************************)

\* The text has a line that ends in ": " and the value.
ShowsValue(text, val) ==
    LET shown == <<":"," ">> \o val IN
    \E i \in 1..(Len(text) - Len(shown) + 1) :
        /\ SubSeq(text, i, i + Len(shown) - 1) = shown
        /\ i + Len(shown) > Len(text) \/ text[i + Len(shown)] = NL[1]

\* The raw counterparts of a range-text key that the stats hold.
RawCounterparts(stats, key) ==
    LET base_key == Replace(key, RANGE_TEXT, <<>>)
    IN {raw \in {base_key, base_key \o <<"_","m","i","n">>, base_key \o <<"_","m","a","x">>} : HasKey(stats, raw)}

\* C25: for every stat the record holds both as range text and raw (the base
\* key, its _min or its _max), format_content renders the range-text value
\* and none of the raw counterparts, for physical damage and for every other
\* stat alike.
C25_Original ==
    pc = "formatted" =>
        \A k \in 1..Len(item.stats) :
            (Contains(item.stats[k][1], RANGE_TEXT)
                /\ RawCounterparts(item.stats, item.stats[k][1]) # {}) =>
                /\ \/ ShowsValue(content, html_escape(item.stats[k][2]))
                   \/ ShowsValue(content, item.stats[k][2])
                /\ \A raw \in RawCounterparts(item.stats, item.stats[k][1]) :
                     ~ShowsValue(content, html_escape(GetKey(item.stats, raw)))

\* C26: no stat line rendered by format_content shows a value that is empty
\* or the literal string '0', for a labelled key and for a key rendered
\* with a generic label alike.
C26_Original ==
    pc = "formatted" =>
        /\ ~ShowsValue(content, <<>>)
        /\ ~ShowsValue(content, <<"0">>)

\* C27: every string of the record that format_content puts into the HTML
\* output is escaped, the physical damage values included: no ampersand of
\* the record reaches the output raw.
C27_Original ==
    pc = "formatted" => WellEscaped(content)

(***************************************************************************)
(* The two lists of get_mods_fallback (SpecFallback)                       *)
(***************************************************************************)

\* The flag the item_mods response of this call gives the mod: the last row
\* with its id counts.
Flagged(mod_id, flag) ==
    LET named == {i \in 1..Len(item_mods.rows) : item_mods.rows[i].id = mod_id}
    IN /\ named # {}
       /\ item_mods.rows[CHOOSE i \in named : \A j \in named : j <= i][flag] = "1"

\* The mods rows that resolve to a string: an id, a text, not hidden.
ResolvedAt(i) ==
    /\ mods.rows[i].id # ""
    /\ Truthy(mods.rows[i].stat_text)
    /\ ~Contains(mods.rows[i].stat_text, Hidden)

\* The mods rows the assembly gets to: no row before them names a mod that
\* the item_mods response lacks.
ResolvedRows ==
    {i \in 1..Len(mods.rows) :
        /\ ResolvedAt(i)
        /\ \A j \in 1..i : ResolvedAt(j) =>
             \E k \in 1..Len(item_mods.rows) : item_mods.rows[k].id = mods.rows[j].id}

OriginOf(i) == [mod_id |-> mods.rows[i].id, template |-> mods.rows[i].stat_text]
InList(origins, i) == \E k \in 1..Len(origins) : origins[k] = OriginOf(i)

\* No string is in a list whose flag is not set for its mod.
FlagsRespected ==
    /\ \A k \in 1..Len(fallback_mods.implicit_from) :
         Flagged(fallback_mods.implicit_from[k].mod_id, "is_implicit")
    /\ \A k \in 1..Len(fallback_mods.explicit_from) :
         Flagged(fallback_mods.explicit_from[k].mod_id, "is_explicit")
    /\ Len(fallback_mods.implicit) = Len(fallback_mods.implicit_from)
    /\ Len(fallback_mods.explicit) = Len(fallback_mods.explicit_from)

\* C28 as stated: every resolved, non-hidden mod string is in the implicit
\* list when its mod is flagged implicit and in the explicit list when its mod
\* is flagged explicit, and in no list whose flag is not set.
C28_Original ==
    fb_pc = "returned" =>
        /\ FlagsRespected
        /\ \A i \in ResolvedRows :
             /\ Flagged(mods.rows[i].id, "is_implicit") => InList(fallback_mods.implicit_from, i)
             /\ Flagged(mods.rows[i].id, "is_explicit") => InList(fallback_mods.explicit_from, i)

\* C28, amended: every resolved, non-hidden mod string is in the implicit
\* list when its mod is flagged implicit, and in the explicit list when its
\* mod is flagged explicit and not implicit; no string is in a list whose flag
\* is not set for its mod.
C28_Bucketed ==
    fb_pc = "returned" =>
        /\ FlagsRespected
        /\ \A i \in ResolvedRows :
             /\ Flagged(mods.rows[i].id, "is_implicit") => InList(fallback_mods.implicit_from, i)
             /\ (Flagged(mods.rows[i].id, "is_explicit")
                    /\ ~Flagged(mods.rows[i].id, "is_implicit"))
                  => InList(fallback_mods.explicit_from, i)

\* Of two resolved mods the first is flagged explicit and the second both
\* ways: the first is in the explicit list, the second in the implicit list
\* alone.
C28_Witness ==
    /\ fb_pc = "returned"
    /\ Len(mods.rows) = 2 /\ ResolvedRows = {1, 2}
    /\ Flagged(mods.rows[1].id, "is_explicit") /\ ~Flagged(mods.rows[1].id, "is_implicit")
    /\ Flagged(mods.rows[2].id, "is_explicit") /\ Flagged(mods.rows[2].id, "is_implicit")
    /\ fallback_mods.explicit_from = <<OriginOf(1)>>
    /\ fallback_mods.implicit_from = <<OriginOf(2)>>

(***************************************************************************)
(* Redelivery (SpecRedelivery)                                             *)
(***************************************************************************)

\* An applied edit of the log that shows the loading trailer.
LoadingApplied(j) ==
    /\ log[j].kind = "edit"
    /\ log[j].outcome = Delivered
    /\ Contains(log[j].text, <<"L","o","a","d","i","n","g"," ","m","o","d","s",".",".",".">>)

\* An applied edit of the log with resolved content: the Phase 2 content,
\* built from the lookup with mods, without the trailer.
ResolvedAppliedAt(i) ==
    /\ log[i].kind = "edit"
    /\ log[i].site = "phase2"
    /\ log[i].outcome = Delivered
    /\ ~Contains(log[i].text, <<"L","o","a","d","i","n","g"," ","m","o","d","s",".",".",".">>)

\* C29: once an edit with resolved content has been applied to a message, no
\* later edit puts a "Loading mods..." text back on that message, however the
\* resolutions the handlers start for it follow one another.
C29_Original ==
    \A i \in 1..Len(log) : \A j \in 1..Len(log) :
        (i < j /\ ResolvedAppliedAt(i) /\ log[j].ref = log[i].ref) => ~LoadingApplied(j)

(***************************************************************************)
(* The end of the loading state (SpecLive)                                 *)
(***************************************************************************)

\* A Phase 1 edit showing "Loading mods..." was applied.
LoadingShown == \E i \in 1..Len(log) : LoadingApplied(i)

\* A later edit whose text has no loading trailer was attempted.
ClearedAfter ==
    \E i \in 1..Len(log) : \E j \in 1..Len(log) :
        /\ i < j
        /\ LoadingApplied(i)
        /\ log[j].kind = "edit"
        /\ ~Contains(log[j].text, <<"L","o","a","d","i","n","g"," ","m","o","d","s",".",".",".">>)

\* C30: a run of resolve_item_details that applies a Phase 1 edit showing
\* "Loading mods..." eventually attempts a later edit whose text has no
\* loading trailer, whatever Phase 2 returns, raises or is answered with.
C30_Original == LoadingShown ~> ClearedAfter

====
